---------------------------- MODULE Spec2Model ----------------------------
(***************************************************************************)
(* Matchmaking queue and duel state machine of the EmotionalDuel bot.      *)
(*                                                                         *)
(* The durable state is the two tables of modules/database/database.py     *)
(* (duel_queue, duels).  Every Database method is a synchronous call made  *)
(* from a coroutine of one asyncio event loop, so a method (one or more    *)
(* sessions) and any run of methods with no `await` between them is one    *)
(* atomic step; handlers of different updates interleave only at their     *)
(* `await` points.                                                         *)
(*                                                                         *)
(* Specifications:                                                         *)
(*   Spec      the handlers of handlers.py for the random queue, photos,   *)
(*             scoring, /start and exit_queue, each cut at its awaits;     *)
(*   SpecRooms the handlers for create_room, join by code, find_random and *)
(*             exit_queue;                                                 *)
(*   SpecDb    the Database methods called directly, in any order, by any  *)
(*             user, the clock moving;                                     *)
(*   SpecPair  join_queue, leave_queue and create_duel_from_queue called   *)
(*             directly, create_duel_from_queue possibly hit by a fault;   *)
(*   SpecMem   the in-memory room flow of handlers/duel.py over the        *)
(*             GameManager of game_state.py, each handler cut at its       *)
(*             awaits, a suspended run_duel_and_notify going on;           *)
(*   SpecScorer pairing, photos and scoring of handlers.py, the Scorer     *)
(*             returning, raising or never returning;                      *)
(*   SpecHistory the duels table filled by save_duel, pairing, results and *)
(*             cancellations, for get_user_history;                        *)
(*   SpecRepair cleanup_duplicate_queues and cleanup_expired_queues run    *)
(*             between the calls that fill duel_queue;                     *)
(*   SpecClock the handlers of SpecRooms with the clock passing the expiry *)
(*             of rows that no sweep collects;                             *)
(*   SpecRace  the handlers of Spec, a participant cancelling while only   *)
(*             photo handlers of the opponent are in flight.               *)
(***************************************************************************)
EXTENDS Integers, Sequences, FiniteSets, Bags, TLC

(***************************************************************************)
(* Bounds of the model.                                                    *)
(***************************************************************************)
MaxQueue == 4        \* rows of duel_queue ever inserted
MaxDbQueue == 2      \* rows of duel_queue inserted in SpecDb
MaxRoomQueue == 3    \* rows of duel_queue inserted in SpecRooms
MaxDuels == 2        \* rows of duels ever inserted
MaxTime == 2         \* clock ticks
MaxInFlight == 2     \* photo handlers suspended at an await at the same time
MaxScorerCalls == 2  \* Scorer invocations counted per duel

Users == {1, 2, 3}
\* codes secrets.randbelow(9000) + 1000 can draw (a sample of 1000..9999)
RoomCodes == {1000, 1001}
\* int(message.text) for the texts ^\d{4}$ lets through (a sample of 0..9999)
JoinCodes == {0} \cup RoomCodes
\* the prompt catalog of TaskManager
Tasks == {"joy"}
\* raw similarity scores <<a, b>> the model can return, in units of 1e-7:
\* 0.7/0.4, 0.4/0.7, 0.50005/0.5, 0.5/0.5
ScorePairs == {<<7000000, 4000000>>, <<4000000, 7000000>>,
               <<5000500, 5000000>>, <<5000000, 5000000>>}

(***************************************************************************)
(* Program constants.                                                      *)
(***************************************************************************)
max_attempts == 50           \* generate_room_code
ROOM_WAIT_MINUTES == 5       \* create_room(wait_minutes=5)
RANDOM_MATCH_TIMEOUT == 1    \* config.RANDOM_MATCH_TIMEOUT, minutes
eps_draw == 10000            \* 1e-3 in units of 1e-7

\* Optional[...] columns: None is the empty tuple, a value v is <<v>>.
None == <<>>
Some(v) == <<v>>
\* Python truthiness of an Optional[int]: None and 0 are falsy.
Truthy(o) == o # None /\ o[1] # 0

VARIABLES
    queue,        \* table duel_queue: row id = index
    duels,        \* table duels: row id = index
    now,          \* datetime.now(timezone.utc), in minutes
    downloading,  \* on_photo_received handlers between the duel read and the mark
    running,      \* run_duel invocations before the Scorer call
    pendingLeave, \* on_code_text handlers between "room not found" and leave_queue
    scorerCalls,  \* per duel: how often ml.score_duel_by_user_ids was called
    failedDuels,  \* <<duel, rows of duels then>> per Scorer failure on a scoring duel
    consumed,     \* per duel: the queue rows create_duel_from_queue read for it
    last,         \* the operation of the last step and its outcome
    room_objects, \* game_state.py: every GameRoom made so far, by object id
    rooms,        \* GameManager.rooms: <<code, object id>> in insertion order
    waiting_players, \* GameManager.waiting_players: <<user, ts>> in insertion order
    fsm_state,    \* the FSM storage of handlers/duel.py: the state of each user
    coroutines,   \* handlers of handlers/duel.py suspended at an await
    in_scorer     \* the duel whose Scorer call holds the loop's thread, 0 if none

vars == <<queue, duels, now, downloading, running, pendingLeave,
          scorerCalls, failedDuels, consumed, last,
          room_objects, rooms, waiting_players, fsm_state, coroutines,
          in_scorer>>

\* What the handlers of handlers.py and the Database methods leave alone:
\* the in-memory state of game_state.py and handlers/duel.py, and the loop's
\* thread, which they give back when they await or return.
MemSame ==
    UNCHANGED <<room_objects, rooms, waiting_players, fsm_state, coroutines,
                in_scorer>>

(***************************************************************************)
(* Rows.                                                                   *)
(***************************************************************************)
DuelQueue(u, code, t, exp) ==
    [user_id |-> u, room_code |-> code, created_at |-> t,
     expires_at |-> exp, status |-> "waiting"]

Duel(a, b, code, task, t) ==
    [user_a_id |-> a, user_b_id |-> b, room_code |-> code, task_text |-> task,
     score_a |-> None, score_b |-> None, winner_user_id |-> None,
     created_at |-> t, status |-> "waiting_photos",
     photo_a_received |-> FALSE, photo_b_received |-> FALSE]

\* A database: the two tables.
Db(q, d) == [q |-> q, d |-> d]

\* What a method hands back: the tables, the exception raised ("" for a
\* normal return) and the returned value.
Ret(db, raised, val) == [q |-> db.q, d |-> db.d, raised |-> raised, val |-> val]

\* a session that keeps what was written when the body raised
SessionNoRollback(before, w) == w
\* Database.session: commit on a normal exit, rollback when the body raised.
session(before, w) ==
    IF w.raised # "" THEN Ret(before, w.raised, w.val) ELSE w

\* Result.scalar_one_or_none(): raises MultipleResultsFound on 2+ rows.
MultipleResultsFound(S) == Cardinality(S) > 1
TheOne(S) == CHOOSE x \in S : TRUE

\* the rows of a user whatever their status (no status filter)
RowsOfAnyStatus(q, u) ==
    {i \in DOMAIN q : q[i].user_id = u}
\* .where(user_id == u, status == 'waiting')
WaitingOf(q, u) ==
    {i \in DOMAIN q : q[i].user_id = u /\ q[i].status = "waiting"}
WaitingWithCode(q, c) ==
    {i \in DOMAIN q : q[i].room_code = Some(c) /\ q[i].status = "waiting"}
ActiveStatus == {"waiting_photos", "scoring"}
IsParticipant(dl, u) == dl.user_a_id = u \/ dl.user_b_id = u


(***************************************************************************)
(* Database methods.  Each takes the tables (and the clock where the code  *)
(* reads it) and yields Ret(tables afterwards, exception, return value).   *)
(***************************************************************************)

\* Database.is_user_in_queue
is_user_in_queue(db, u) ==
    LET existing_entry == WaitingOf(db.q, u) IN
    session(db,
        IF MultipleResultsFound(existing_entry)
        THEN Ret(db, "MultipleResultsFound", FALSE)
        ELSE Ret(db, "", existing_entry # {}))

\* a generator that returns the first draw without the look at the rows
generate_room_code_unchecked(db, attempts) ==
    {Ret(db, "", code) : code \in RoomCodes}
\* Database.generate_room_code: the outcomes the loop can end in, over every
\* sequence of random draws.  An attempt ends the loop when the drawn code is
\* free (return) or carried by 2+ waiting rows (scalar_one_or_none raises);
\* it goes on to the next attempt when exactly one waiting row carries it.
generate_room_code(db, attempts) ==
    LET ending == {code \in RoomCodes :
                      Cardinality(WaitingWithCode(db.q, code)) # 1}
        taken == {code \in RoomCodes :
                      Cardinality(WaitingWithCode(db.q, code)) = 1}
        returns == {IF WaitingWithCode(db.q, code) = {}
                    THEN Ret(db, "", code)
                    ELSE Ret(db, "MultipleResultsFound", 0) : code \in ending}
        RECURSIVE attempt(_)
        attempt(left) ==
            IF left = 0 THEN {Ret(db, "RuntimeError", 0)}
            ELSE returns \cup (IF taken # {} THEN attempt(left - 1) ELSE {})
    IN attempt(attempts)

\* Database.create_room: the outcomes, one per outcome of generate_room_code.
\* No look at the rows the user already has.
create_room(db, u, t) ==
    {IF g.raised # "" THEN g
     ELSE session(db,
              Ret(Db(Append(db.q, DuelQueue(u, Some(g.val), t,
                                            t + ROOM_WAIT_MINUTES)), db.d),
                  "", g.val)) :
        g \in generate_room_code(db, max_attempts)}

\* a room that counts as full with one occupant
join_queue_full_at_one(db, u, code, t) ==
    LET existing_entry == WaitingOf(db.q, u)
        room_entries == {i \in DOMAIN db.q : db.q[i].room_code = code
                                             /\ db.q[i].status = "waiting"}
        entry == DuelQueue(u, code, t, t + RANDOM_MATCH_TIMEOUT)
    IN session(db,
        IF MultipleResultsFound(existing_entry)
        THEN Ret(db, "MultipleResultsFound", 0)
        ELSE IF existing_entry # {} THEN Ret(db, "ValueError", 0)
        ELSE IF Truthy(code) /\ (room_entries = {}
                                 \/ Cardinality(room_entries) >= 1)
        THEN Ret(db, "", 0)
        ELSE Ret(Db(Append(db.q, entry), db.d), "", Len(db.q) + 1))
\* Database.join_queue(user_id, room_code): code is None or Some(c).
\* Returns the new row id, or 0 for the `return None` exits.
join_queue(db, u, code, t) ==
    LET existing_entry == WaitingOf(db.q, u)
        room_entries == {i \in DOMAIN db.q : db.q[i].room_code = code
                                             /\ db.q[i].status = "waiting"}
        entry == DuelQueue(u, code, t, t + RANDOM_MATCH_TIMEOUT)
    IN session(db,
        IF MultipleResultsFound(existing_entry)
        THEN Ret(db, "MultipleResultsFound", 0)
        ELSE IF existing_entry # {} THEN Ret(db, "ValueError", 0)
        ELSE IF Truthy(code) /\ (room_entries = {}
                                 \/ Cardinality(room_entries) >= 2)
        THEN Ret(db, "", 0)
        ELSE Ret(Db(Append(db.q, entry), db.d), "", Len(db.q) + 1))

\* a search that does not leave out the user's own rows
find_opponent_own_rows(db, u, t) ==
    LET q == db.q
        mine == {i \in WaitingOf(q, u) : q[i].expires_at > t}
        user_entry == q[TheOne(mine)]
        others == {i \in DOMAIN q : q[i].status = "waiting"
                                    /\ q[i].expires_at > t}
        cand == IF Truthy(user_entry.room_code)
                THEN {i \in others : q[i].room_code = user_entry.room_code}
                ELSE {i \in others : q[i].room_code = None}
    IN session(db,
        IF MultipleResultsFound(mine) THEN Ret(db, "MultipleResultsFound", 0)
        ELSE IF mine = {} THEN Ret(db, "", 0)
        ELSE IF MultipleResultsFound(cand)
        THEN Ret(db, "MultipleResultsFound", 0)
        ELSE IF cand = {} THEN Ret(db, "", 0)
        ELSE Ret(db, "", TheOne(cand)))
\* a search that takes any waiting row, expired or not
find_opponent_any_expiry(db, u, t) ==
    LET q == db.q
        mine == WaitingOf(q, u)
        user_entry == q[TheOne(mine)]
        others == {i \in DOMAIN q : q[i].user_id # u
                                    /\ q[i].status = "waiting"}
        cand == IF Truthy(user_entry.room_code)
                THEN {i \in others : q[i].room_code = user_entry.room_code}
                ELSE {i \in others : q[i].room_code = None}
    IN session(db,
        IF MultipleResultsFound(mine) THEN Ret(db, "MultipleResultsFound", 0)
        ELSE IF mine = {} THEN Ret(db, "", 0)
        ELSE IF MultipleResultsFound(cand)
        THEN Ret(db, "MultipleResultsFound", 0)
        ELSE IF cand = {} THEN Ret(db, "", 0)
        ELSE Ret(db, "", TheOne(cand)))
\* Database.find_opponent: the opponent's row id, 0 for None.
find_opponent(db, u, t) ==
    LET q == db.q
        mine == {i \in WaitingOf(q, u) : q[i].expires_at > t}
        user_entry == q[TheOne(mine)]
        others == {i \in DOMAIN q : q[i].user_id # u
                                    /\ q[i].status = "waiting"
                                    /\ q[i].expires_at > t}
        cand == IF Truthy(user_entry.room_code)
                THEN {i \in others : q[i].room_code = user_entry.room_code}
                ELSE {i \in others : q[i].room_code = None}
    IN session(db,
        IF MultipleResultsFound(mine) THEN Ret(db, "MultipleResultsFound", 0)
        ELSE IF mine = {} THEN Ret(db, "", 0)
        ELSE IF MultipleResultsFound(cand)
        THEN Ret(db, "MultipleResultsFound", 0)
        ELSE IF cand = {} THEN Ret(db, "", 0)
        ELSE Ret(db, "", TheOne(cand)))

\* Where a fault outside the method's own logic can hit create_duel_from_queue:
\* task_manager.get_random_task() raising (nothing written yet), or the commit
\* failing after the INSERT of the duel and the UPDATE of the first row went out.
Faults == {"none", "task", "commit"}

\* Database.create_duel_from_queue: returns <<id of the new duel, row of the
\* user, row of the opponent>>.
create_duel_from_queue(db, u, o, t, task, fault) ==
    LET q == db.q
        ue == WaitingOf(q, u)
        oe == WaitingOf(q, o)
        user_entry == TheOne(ue)
        opponent_entry == TheOne(oe)
        added == Append(db.d, Duel(u, o, q[user_entry].room_code, task, t))
        q1 == [q EXCEPT ![user_entry].status = "matched"]
        q2 == [q1 EXCEPT ![opponent_entry].status = "matched"]
    IN session(db,
        IF MultipleResultsFound(ue) \/ MultipleResultsFound(oe)
        THEN Ret(db, "MultipleResultsFound", <<0, 0, 0>>)
        ELSE IF ue = {} \/ oe = {} THEN Ret(db, "ValueError", <<0, 0, 0>>)
        ELSE IF fault = "task" THEN Ret(db, "Exception", <<0, 0, 0>>)
        ELSE IF fault = "commit"
        THEN Ret(Db(q1, added), "Exception", <<0, 0, 0>>)
        ELSE Ret(Db(q2, added), "", <<Len(added), user_entry, opponent_entry>>))

\* Database.leave_queue
leave_queue(db, u) ==
    LET result == WaitingOf(db.q, u) IN
    session(db,
        IF MultipleResultsFound(result) THEN Ret(db, "MultipleResultsFound", FALSE)
        ELSE IF result # {}
        THEN Ret(Db([db.q EXCEPT ![TheOne(result)].status = "cancelled"], db.d),
                 "", TRUE)
        ELSE Ret(db, "", FALSE))

\* a sweep that takes a row that expires now as expired
cleanup_expired_queues_at_expiry(db, t) ==
    LET result == {i \in DOMAIN db.q : db.q[i].expires_at <= t
                                       /\ db.q[i].status = "waiting"}
    IN session(db,
        Ret(Db([i \in DOMAIN db.q |->
                   IF i \in result THEN [db.q[i] EXCEPT !.status = "expired"]
                   ELSE db.q[i]], db.d),
            "", Cardinality(result)))
\* Database.cleanup_expired_queues: returns the number of rows expired.
cleanup_expired_queues(db, t) ==
    LET result == {i \in DOMAIN db.q : db.q[i].expires_at < t
                                       /\ db.q[i].status = "waiting"}
    IN session(db,
        Ret(Db([i \in DOMAIN db.q |->
                   IF i \in result THEN [db.q[i] EXCEPT !.status = "expired"]
                   ELSE db.q[i]], db.d),
            "", Cardinality(result)))

\* ORDER BY created_at DESC: created_at is func.now() at microsecond
\* resolution, so of two rows inserted in the same minute of the model's clock
\* the one with the greater id is the later.
Later(rows, i, j) ==
    \/ rows[i].created_at > rows[j].created_at
    \/ rows[i].created_at = rows[j].created_at /\ i > j

\* Database.get_active_duel_for_user: the id .first() yields (the latest
\* waiting_photos duel of the user), 0 for None.
get_active_duel_for_user(db, u) ==
    LET mine == {i \in DOMAIN db.d : IsParticipant(db.d[i], u)
                                     /\ db.d[i].status = "waiting_photos"}
    IN IF mine = {} THEN 0
       ELSE CHOOSE i \in mine : \A j \in mine \ {i} : Later(db.d, i, j)

\* a barrier that closes on either flag
mark_duel_photo_received_either(db, id, u) ==
    LET duel == db.d[id]
        d1 == IF u = duel.user_a_id
              THEN [duel EXCEPT !.photo_a_received = TRUE]
              ELSE [duel EXCEPT !.photo_b_received = TRUE]
        both_received == d1.photo_a_received \/ d1.photo_b_received
        d2 == IF both_received /\ d1.status = "waiting_photos"
              THEN [d1 EXCEPT !.status = "scoring"] ELSE d1
    IN session(db,
        IF id \notin DOMAIN db.d THEN Ret(db, "", FALSE)
        ELSE IF ~IsParticipant(duel, u) THEN Ret(db, "", FALSE)
        ELSE Ret(Db(db.q, [db.d EXCEPT ![id] = d2]), "", both_received))
\* Database.mark_duel_photo_received: returns both_received.
mark_duel_photo_received(db, id, u) ==
    LET duel == db.d[id]
        d1 == IF u = duel.user_a_id
              THEN [duel EXCEPT !.photo_a_received = TRUE]
              ELSE [duel EXCEPT !.photo_b_received = TRUE]
        both_received == d1.photo_a_received /\ d1.photo_b_received
        d2 == IF both_received /\ d1.status = "waiting_photos"
              THEN [d1 EXCEPT !.status = "scoring"] ELSE d1
    IN session(db,
        IF id \notin DOMAIN db.d THEN Ret(db, "", FALSE)
        ELSE IF ~IsParticipant(duel, u) THEN Ret(db, "", FALSE)
        ELSE Ret(Db(db.q, [db.d EXCEPT ![id] = d2]), "", both_received))

\* a comparison that hands a tie to user_a
StoredWinnerTieToA(duel, score_a, score_b) ==
    IF score_a >= score_b THEN Some(duel.user_a_id)
    ELSE Some(duel.user_b_id)
\* The winner update_duel_result stores: a plain comparison of the two scores.
StoredWinner(duel, score_a, score_b) ==
    IF score_a > score_b THEN Some(duel.user_a_id)
    ELSE IF score_b > score_a THEN Some(duel.user_b_id)
    ELSE None

\* Database.update_duel_result
update_duel_result(db, id, score_a, score_b, task) ==
    LET q == db.q
        duel == db.d[id]
        ae == {i \in DOMAIN q : q[i].user_id = duel.user_a_id
                                /\ q[i].status = "matched"}
        be == {i \in DOMAIN q : q[i].user_id = duel.user_b_id
                                /\ q[i].status = "matched"}
        q1 == [i \in DOMAIN q |->
                  IF i \in ae \cup be THEN [q[i] EXCEPT !.status = "expired"]
                  ELSE q[i]]
        done == [duel EXCEPT !.task_text = task,
                             !.score_a = Some(score_a),
                             !.score_b = Some(score_b),
                             !.status = "completed",
                             !.winner_user_id =
                                 StoredWinner(duel, score_a, score_b)]
    IN session(db,
        IF id \notin DOMAIN db.d THEN Ret(db, "ValueError", 0)
        ELSE IF MultipleResultsFound(ae) \/ MultipleResultsFound(be)
        THEN Ret(db, "MultipleResultsFound", 0)
        ELSE IF ae = {} \/ be = {} THEN Ret(db, "ValueError", 0)
        ELSE Ret(Db(q1, [db.d EXCEPT ![id] = done]), "", id))

\* The duels cancel_duel_on_start's .first() can yield (no ORDER BY).
ActiveDuelsOf(db, u) ==
    {i \in DOMAIN db.d : IsParticipant(db.d[i], u)
                         /\ db.d[i].status \in ActiveStatus}

\* Database.cancel_duel_on_start, for the duel `pick` that .first() yielded
\* (0 when the user has no active duel): returns the cancelled duel's id or 0.
cancel_duel_on_start(db, u, pick) ==
    LET active_duel == db.d[pick]
        opponent_id == IF active_duel.user_a_id # u
                       THEN active_duel.user_a_id ELSE active_duel.user_b_id
        entries == {i \in DOMAIN db.q :
                       db.q[i].user_id \in {u, opponent_id}
                       /\ db.q[i].status \in {"waiting", "matched"}}
    IN session(db,
        IF pick = 0 THEN Ret(db, "", 0)
        ELSE Ret(Db([i \in DOMAIN db.q |->
                        IF i \in entries
                        THEN [db.q[i] EXCEPT !.status = "cancelled"]
                        ELSE db.q[i]],
                    [db.d EXCEPT ![pick].status = "cancelled"]),
                 "", pick))
CancelPicks(db, u) ==
    IF ActiveDuelsOf(db, u) = {} THEN {0} ELSE ActiveDuelsOf(db, u)

\* The waiting_photos duels of a user, and the latest of a set of rows.
WaitingPhotosOf(d, u) ==
    {i \in DOMAIN d : IsParticipant(d[i], u) /\ d[i].status = "waiting_photos"}
Latest(rows, ids) == CHOOSE i \in ids : \A j \in ids \ {i} : Later(rows, i, j)

RECURSIVE Sum(_, _)
Sum(f, S) ==
    IF S = {} THEN 0
    ELSE LET x == CHOOSE y \in S : TRUE IN f[x] + Sum(f, S \ {x})

\* Database.cleanup_duplicate_duels.  The session does not autoflush, so the
\* query of each user sees the rows as they were when the method began.
\* Returns len(duels_to_cancel), a duel counted once per user it is cancelled
\* for.
cleanup_duplicate_duels(db) ==
    LET d == db.d
        duplicate_users == {u \in Users : Cardinality(WaitingPhotosOf(d, u)) > 1}
        cancelled == [u \in duplicate_users |->
                         WaitingPhotosOf(d, u) \ {Latest(d, WaitingPhotosOf(d, u))}]
        all == UNION {cancelled[u] : u \in duplicate_users}
    IN session(db,
        Ret(Db(db.q, [i \in DOMAIN d |->
                         IF i \in all THEN [d[i] EXCEPT !.status = "cancelled"]
                         ELSE d[i]]),
            "", Sum([u \in duplicate_users |-> Cardinality(cancelled[u])],
                    duplicate_users)))

\* a repair that keeps the oldest waiting row of each user
cleanup_duplicate_queues_keep_oldest(db) ==
    LET q == db.q
        users == {u \in Users : Cardinality(WaitingOf(q, u)) > 1}
        oldest(u) == CHOOSE i \in WaitingOf(q, u) :
                         \A j \in WaitingOf(q, u) \ {i} : Later(q, j, i)
        records_to_update == UNION {WaitingOf(q, u) \ {oldest(u)} : u \in users}
    IN session(db,
        Ret(Db([i \in DOMAIN q |->
                   IF i \in records_to_update
                   THEN [q[i] EXCEPT !.status = "cancelled"] ELSE q[i]], db.d),
            "", Cardinality(records_to_update)))
\* Database.cleanup_duplicate_queues: returns the number of rows cancelled.
cleanup_duplicate_queues(db) ==
    LET q == db.q
        users == {u \in Users : Cardinality(WaitingOf(q, u)) > 1}
        records_to_update ==
            UNION {WaitingOf(q, u) \ {Latest(q, WaitingOf(q, u))} : u \in users}
    IN session(db,
        Ret(Db([i \in DOMAIN q |->
                   IF i \in records_to_update
                   THEN [q[i] EXCEPT !.status = "cancelled"] ELSE q[i]], db.d),
            "", Cardinality(records_to_update)))

\* the rows `ids` in ORDER BY created_at DESC, id DESC
RECURSIVE OrderedDesc(_, _)
OrderedDesc(rows, ids) ==
    IF ids = {} THEN <<>>
    ELSE LET first == CHOOSE i \in ids : \A j \in ids \ {i} : Later(rows, i, j)
         IN <<first>> \o OrderedDesc(rows, ids \ {first})

\* a history of the duels the user is user_a of only
get_user_history_user_a_only(db, user_id, limit, offset) ==
    LET rows == {i \in DOMAIN db.d : /\ db.d[i].user_a_id = user_id
                                     /\ db.d[i].status = "completed"
                                     /\ db.d[i].score_a # None
                                     /\ db.d[i].score_b # None}
        ordered == OrderedDesc(db.d, rows)
    IN SubSeq(ordered, offset + 1,
              IF offset + limit < Len(ordered) THEN offset + limit
              ELSE Len(ordered))
\* Database.get_user_history: the ids of the duels returned, in order
get_user_history(db, user_id, limit, offset) ==
    LET rows == {i \in DOMAIN db.d : /\ IsParticipant(db.d[i], user_id)
                                     /\ db.d[i].status = "completed"
                                     /\ db.d[i].score_a # None
                                     /\ db.d[i].score_b # None}
        ordered == OrderedDesc(db.d, rows)
    IN SubSeq(ordered, offset + 1,
              IF offset + limit < Len(ordered) THEN offset + limit
              ELSE Len(ordered))

\* Database.save_duel: the legacy insert of a finished duel.  Returns the id.
save_duel(db, user_a_id, user_b_id, task_text, score_a, score_b, t) ==
    LET winner_user_id == IF score_b > score_a THEN Some(user_b_id)
                          ELSE IF score_a = score_b THEN None
                          ELSE Some(user_a_id)
        duel == [Duel(user_a_id, user_b_id, None, task_text, t)
                    EXCEPT !.score_a = Some(score_a),
                           !.score_b = Some(score_b),
                           !.winner_user_id = winner_user_id,
                           !.status = "completed",
                           !.photo_a_received = TRUE,
                           !.photo_b_received = TRUE]
    IN session(db, Ret(Db(db.q, Append(db.d, duel)), "", Len(db.d) + 1))

(***************************************************************************)
(* The Scorer adapter, DuelML.score_duel_by_user_ids: the winner is decided *)
(* on the raw scores with the draw threshold, the scores are then rounded  *)
(* to 6 decimals.  Raw scores are in units of 1e-7, rounded ones in 1e-6.  *)
(***************************************************************************)
\* round(x, 6): to the nearest, a tie to the even neighbour
Round6(v) ==
    LET q == v \div 10
        r == v % 10
    IN IF r < 5 THEN q
       ELSE IF r > 5 THEN q + 1
       ELSE IF q % 2 = 0 THEN q ELSE q + 1

Abs(x) == IF x < 0 THEN -x ELSE x

score_duel_by_user_ids(raw_a, raw_b) ==
    [score_a |-> Round6(raw_a), score_b |-> Round6(raw_b),
     winner |-> IF Abs(raw_a - raw_b) < eps_draw THEN "draw"
                ELSE IF raw_a > raw_b THEN "a" ELSE "b"]

(***************************************************************************)
(* game_state.py: GameRoom and GameManager, the in-memory room flow.  A    *)
(* room code is a str: four decimal digits, modelled as the tuple of its   *)
(* digits, or "r{min}_{max}" for a pair of the random queue, modelled as   *)
(* <<"r", min, max>>.  GameRoom objects are referred to by object id (the  *)
(* index in room_objects), since a handler keeps its reference to a room   *)
(* across awaits; guest_id None is 0.                                      *)
(***************************************************************************)
\* f"{n:04d}" for 0 <= n <= 9999
Format04d(n) ==
    <<(n \div 1000) % 10, (n \div 100) % 10, (n \div 10) % 10, n % 10>>

\* the codes random.randint(1000, 9999) draws (a sample)
RoomDraws == {1000}
\* the texts on_code_text receives (a sample of ^\d{4}$), as digit tuples:
\* a drawn code and the code made of host_id 1
CodeTexts == {Format04d(c) : c \in {1} \cup RoomDraws}

GameRoom(code, host_id, guest_id, task_text) ==
    [code |-> code, host_id |-> host_id, guest_id |-> guest_id,
     task_text |-> task_text,
     photo_received |-> {},       \* the users whose entry is True
     evaluation_started |-> FALSE]

\* The GameManager: its two dicts and the objects they refer to.
Gm(objs, rs, wp) == [objs |-> objs, rooms |-> rs, waiting |-> wp]

\* self.rooms.get(code): the object id, 0 for None
RoomAt(rs, code) ==
    IF \E i \in DOMAIN rs : rs[i][1] = code
    THEN rs[CHOOSE i \in DOMAIN rs : rs[i][1] = code][2]
    ELSE 0

\* self.rooms[code] = room: a key already there keeps its place in the dict
SetRoom(rs, code, id) ==
    IF RoomAt(rs, code) # 0
    THEN [i \in DOMAIN rs |-> IF rs[i][1] = code THEN <<code, id>> ELSE rs[i]]
    ELSE Append(rs, <<code, id>>)

\* GameRoom.mark_photo
mark_photo(room, user_id) ==
    [room EXCEPT !.photo_received = @ \cup {user_id}]

\* GameRoom.both_photos_received
both_photos_received(room) ==
    IF room.guest_id = 0 THEN FALSE
    ELSE room.host_id \in room.photo_received
         /\ room.guest_id \in room.photo_received

\* GameManager.create_room: the outcomes <<manager afterwards, code>> over
\* every sequence of draws.  A draw of a code not in self.rooms ends the loop;
\* after `draws` draws of codes in use the code is made of host_id.
GameManager_create_room(gm, host_id, draws) ==
    LET new == Len(gm.objs) + 1
        made(code) ==
            <<Gm(Append(gm.objs, GameRoom(code, host_id, 0, None)),
                 SetRoom(gm.rooms, code, new), gm.waiting), code>>
        free == {Format04d(c) : c \in
                    {c \in RoomDraws : RoomAt(gm.rooms, Format04d(c)) = 0}}
        used == {c \in RoomDraws : RoomAt(gm.rooms, Format04d(c)) # 0}
        RECURSIVE attempt(_)
        attempt(left) ==
            IF left = 0 THEN {made(Format04d(host_id % 10000))}
            ELSE {made(code) : code \in free}
                 \cup (IF used # {} THEN attempt(left - 1) ELSE {})
    IN attempt(draws)

\* GameManager.join_room_by_code: <<manager afterwards, room id or 0>>
join_room_by_code(gm, code, user_id) ==
    LET id == RoomAt(gm.rooms, code) IN
    IF id = 0 THEN <<gm, 0>>
    ELSE IF gm.objs[id].guest_id # 0 THEN <<gm, 0>>
    ELSE <<Gm([gm.objs EXCEPT ![id].guest_id = user_id,
                              ![id].photo_received = {}],
              gm.rooms, gm.waiting), id>>

\* GameManager.find_or_enqueue_for_random: <<manager afterwards, the waiting
\* user found or 0>>.  t and ts are minutes, timeout_seconds is seconds.
find_or_enqueue_for_random(gm, user_id, t, timeout_seconds) ==
    LET kept == SelectSeq(gm.waiting,
                          LAMBDA w : ~((t - w[2]) * 60 > timeout_seconds))
        found == {i \in DOMAIN kept : kept[i][1] # user_id}
        first == CHOOSE i \in found : \A j \in found : i <= j
        mine == {i \in DOMAIN kept : kept[i][1] = user_id}
    IN IF found # {}
       THEN <<Gm(gm.objs, gm.rooms,
                 SelectSeq(kept, LAMBDA w : w[1] # kept[first][1])),
              kept[first][1]>>
       ELSE <<Gm(gm.objs, gm.rooms,
                 IF mine # {}
                 THEN [i \in DOMAIN kept |-> <<user_id, t>>]
                 ELSE Append(kept, <<user_id, t>>)), 0>>

Min(a, b) == IF a < b THEN a ELSE b
Max(a, b) == IF a > b THEN a ELSE b

\* GameManager.create_room_for_pair: <<manager afterwards, room id>>
create_room_for_pair(gm, host_id, guest_id) ==
    LET code == <<"r", Min(host_id, guest_id), Max(host_id, guest_id)>>
        new == Len(gm.objs) + 1
    IN <<Gm(Append(gm.objs, GameRoom(code, host_id, guest_id, None)),
            SetRoom(gm.rooms, code, new), gm.waiting), new>>

\* GameManager.find_room_by_user: the first room in dict order, 0 for None
find_room_by_user(gm, user_id) ==
    LET mine == {i \in DOMAIN gm.rooms :
                    LET room == gm.objs[gm.rooms[i][2]] IN
                    (room.host_id = user_id \/ room.guest_id = user_id)
                    /\ ~room.evaluation_started}
    IN IF mine = {} THEN 0
       ELSE gm.rooms[CHOOSE i \in mine : \A j \in mine : i <= j][2]

\* a remove_room that leaves the dict as it is
remove_room_skipped(rs, code) == rs
\* GameManager.remove_room: self.rooms.pop(code, None)
remove_room(rs, code) ==
    SelectSeq(rs, LAMBDA r : r[1] # code)

(***************************************************************************)
(* Handlers of handlers.py: the Database calls each makes between two       *)
(* awaits, as one block.  Out is what the block leaves: the tables, the     *)
(* exception that ended the handler ("" if none), the branch taken, the     *)
(* opponent, the duel created (0 if none) and the queue rows it was made of.*)
(***************************************************************************)
Out(db, raised, out, other, duel, rows) ==
    [q |-> db.q, d |-> db.d, raised |-> raised, out |-> out,
     other |-> other, duel |-> duel, rows |-> rows]

\* on_find_random, from db.is_user_in_queue to db.create_duel_from_queue
on_find_random(db, u, t, task) ==
    LET state == is_user_in_queue(db, u)
        joined == join_queue(db, u, None, t)
        jdb == Db(joined.q, joined.d)
        opponent == find_opponent(jdb, u, t)
        opp_user == jdb.q[opponent.val].user_id
        duel == create_duel_from_queue(jdb, u, opp_user, t, task, "none")
    IN IF state.raised # "" THEN Out(db, state.raised, "error", 0, 0, {})
       ELSE IF state.val THEN Out(db, "", "already", 0, 0, {})
       ELSE IF joined.raised # "" THEN Out(db, joined.raised, "error", 0, 0, {})
       ELSE IF opponent.raised # ""
       THEN Out(jdb, opponent.raised, "error", 0, 0, {})
       ELSE IF opponent.val = 0 THEN Out(jdb, "", "waiting", 0, 0, {})
       ELSE IF duel.raised # "" THEN Out(jdb, duel.raised, "error", opp_user, 0, {})
       ELSE Out(Db(duel.q, duel.d), "", "paired", opp_user, duel.val[1],
                {duel.val[2], duel.val[3]})

\* on_code_text, from db.is_user_in_queue to db.create_duel_from_queue or to
\* the await before db.leave_queue ("notfound")
on_code_text(db, u, code, t, task) ==
    LET state == is_user_in_queue(db, u)
        joined == join_queue(db, u, Some(code), t)
        jdb == Db(joined.q, joined.d)
        opponent == find_opponent(jdb, u, t)
        opp_user == jdb.q[opponent.val].user_id
        duel == create_duel_from_queue(jdb, u, opp_user, t, task, "none")
    IN IF state.raised # "" THEN Out(db, state.raised, "error", 0, 0, {})
       ELSE IF state.val THEN Out(db, "", "already", 0, 0, {})
       ELSE IF joined.raised # "" THEN Out(db, joined.raised, "error", 0, 0, {})
       ELSE IF opponent.raised # ""
       THEN Out(jdb, opponent.raised, "error", 0, 0, {})
       ELSE IF opponent.val = 0 THEN Out(jdb, "", "notfound", 0, 0, {})
       ELSE IF duel.raised # "" THEN Out(jdb, duel.raised, "error", opp_user, 0, {})
       ELSE Out(Db(duel.q, duel.d), "", "paired", opp_user, duel.val[1],
                {duel.val[2], duel.val[3]})

\* on_create_room: the outcomes, one per outcome of db.create_room
on_create_room(db, u, t) ==
    LET state == is_user_in_queue(db, u) IN
    IF state.raised # "" THEN {Out(db, state.raised, "error", 0, 0, {})}
    ELSE IF state.val THEN {Out(db, "", "already", 0, 0, {})}
    ELSE {Out(Db(r.q, r.d), r.raised,
              IF r.raised # "" THEN "error" ELSE "room", 0, 0, {}) :
             r \in create_room(db, u, t)}

\* cmd_start: db.cancel_duel_on_start (db.save_user writes the users table,
\* which nothing here reads).  `other` is the opponent that is notified.
cmd_start(db, u, pick) ==
    LET r == cancel_duel_on_start(db, u, pick)
        opponent_id == IF pick = 0 THEN 0
                       ELSE IF db.d[pick].user_a_id # u
                       THEN db.d[pick].user_a_id ELSE db.d[pick].user_b_id
    IN Out(Db(r.q, r.d), r.raised,
           IF r.val # 0 THEN "cancelled" ELSE "menu", opponent_id, r.val, {})

\* on_exit_queue: db.cancel_duel_on_start, then db.leave_queue
on_exit_queue(db, u, pick) ==
    LET c == cmd_start(db, u, pick)
        l == leave_queue(Db(c.q, c.d), u)
    IN Out(Db(l.q, l.d), l.raised,
           IF l.raised # "" THEN "error" ELSE c.out, c.other, c.duel, {})

\* an except branch that puts the duel back to waiting_photos
run_duel_except_rollback(db, id) ==
    Ret(Db(db.q, [db.d EXCEPT ![id].status = "waiting_photos"]), "",
        {db.d[id].user_a_id, db.d[id].user_b_id})
\* run_duel's except branch (the Scorer or update_duel_result raised): no
\* Database call, "analysis failed" sent to both participants, each send in
\* its own try.  val: the users the notice is sent to.
run_duel_except(db, id) ==
    Ret(db, "", {db.d[id].user_a_id, db.d[id].user_b_id})

\* run_duel from the Scorer call on, the Scorer returning raw scores
run_duel(db, id, raw_a, raw_b) ==
    LET scores == score_duel_by_user_ids(raw_a, raw_b)
        updated == update_duel_result(db, id, scores.score_a, scores.score_b,
                                      db.d[id].task_text)
        failed == run_duel_except(Db(updated.q, updated.d), id)
    IN IF updated.raised # ""
       THEN [q |-> failed.q, d |-> failed.d, raised |-> updated.raised,
             note |-> failed.val, winner |-> scores.winner]
       ELSE [q |-> updated.q, d |-> updated.d, raised |-> "",
             note |-> {}, winner |-> scores.winner]

(***************************************************************************)
(* State machine.                                                          *)
(***************************************************************************)
DuelIds == 1 .. MaxDuels

\* `last`: which operation the last step was, for whom, on which duel, the
\* exception it ended with, what it returned, and whom it then notified.
Op(op, user, other, duel, raised, ok, note) ==
    [op |-> op, user |-> user, other |-> other, duel |-> duel,
     raised |-> raised, ok |-> ok, note |-> note]
\* A handler step that neither pairs, marks, scores nor cancels.
Idle == Op("", 0, 0, 0, "", FALSE, {})

Init ==
    /\ queue = <<>>
    /\ duels = <<>>
    /\ now = 0
    /\ downloading = EmptyBag
    /\ running = EmptyBag
    /\ pendingLeave = EmptyBag
    /\ scorerCalls = [d \in DuelIds |-> 0]
    /\ failedDuels = {}
    /\ consumed = [d \in DuelIds |-> {}]
    /\ last = Idle
    /\ room_objects = <<>>
    /\ rooms = <<>>
    /\ waiting_players = <<>>
    /\ fsm_state = [u \in Users |-> "None"]
    /\ coroutines = {}
    /\ in_scorer = 0

InFlight ==
    BagCardinality(downloading) + BagCardinality(running)
        + BagCardinality(pendingLeave)

\* The tables after a handler block or a method, within the bounds.
Store(o) ==
    /\ Len(o.q) <= MaxQueue
    /\ Len(o.d) <= MaxDuels
    /\ queue' = o.q
    /\ duels' = o.d

HandlersIdle == UNCHANGED <<downloading, running, pendingLeave>>
PhotoGhostsSame == UNCHANGED <<scorerCalls, failedDuels>>

\* A handler that pairs (or not): its rows are recorded for the duel it made.
Pairing(op, u, o) ==
    /\ Store(o)
    /\ consumed' = IF o.duel # 0 THEN [consumed EXCEPT ![o.duel] = o.rows]
                   ELSE consumed
    /\ last' = Idle

Tick ==
    /\ now < MaxTime
    /\ now' = now + 1
    /\ last' = Idle
    /\ UNCHANGED <<queue, duels, downloading, running, pendingLeave,
                   scorerCalls, failedDuels, consumed>>
    /\ MemSame

OnFindRandom(u) ==
    /\ \E task \in Tasks :
          Pairing("on_find_random", u,
                  on_find_random(Db(queue, duels), u, now, task))
    /\ HandlersIdle /\ PhotoGhostsSame /\ UNCHANGED now
    /\ MemSame

OnCodeText(u, code) ==
    /\ \E task \in Tasks :
          LET o == on_code_text(Db(queue, duels), u, code, now, task) IN
          /\ Pairing("on_code_text", u, o)
          /\ IF o.out = "notfound"
             THEN /\ InFlight < MaxInFlight
                  /\ pendingLeave' = pendingLeave (+) SetToBag({u})
             ELSE pendingLeave' = pendingLeave
    /\ PhotoGhostsSame /\ UNCHANGED <<now, downloading, running>>
    /\ MemSame

\* on_code_text after `await message.answer("room not found")`
CodeNotFoundLeave(u) ==
    /\ BagIn(u, pendingLeave)
    /\ pendingLeave' = pendingLeave (-) SetToBag({u})
    /\ Store(leave_queue(Db(queue, duels), u))
    /\ last' = Idle
    /\ PhotoGhostsSame /\ UNCHANGED <<now, downloading, running, consumed>>
    /\ MemSame

\* the same await raising (the user is unreachable): leave_queue is not called
CodeNotFoundSendFails(u) ==
    /\ BagIn(u, pendingLeave)
    /\ pendingLeave' = pendingLeave (-) SetToBag({u})
    /\ last' = Idle
    /\ PhotoGhostsSame
    /\ UNCHANGED <<queue, duels, now, downloading, running, consumed>>
    /\ MemSame

OnCreateRoom(u) ==
    /\ \E o \in on_create_room(Db(queue, duels), u, now) : Store(o)
    /\ last' = Idle
    /\ HandlersIdle /\ PhotoGhostsSame /\ UNCHANGED <<now, consumed>>
    /\ MemSame

CmdStart(u) ==
    /\ \E pick \in CancelPicks(Db(queue, duels), u) :
          LET o == cmd_start(Db(queue, duels), u, pick) IN
          /\ Store(o)
          /\ last' = Idle
    /\ HandlersIdle /\ PhotoGhostsSame /\ UNCHANGED <<now, consumed>>
    /\ MemSame

OnExitQueue(u) ==
    /\ \E pick \in CancelPicks(Db(queue, duels), u) :
          LET o == on_exit_queue(Db(queue, duels), u, pick) IN
          /\ Store(o)
          /\ last' = Idle
    /\ HandlersIdle /\ PhotoGhostsSame /\ UNCHANGED <<now, consumed>>
    /\ MemSame

\* on_photo_received up to its first await: the duel is read
PhotoOpen(u) ==
    /\ InFlight < MaxInFlight
    /\ LET id == get_active_duel_for_user(Db(queue, duels), u) IN
          /\ id # 0
          /\ downloading' = downloading (+) SetToBag({<<u, id>>})
    /\ last' = Idle
    /\ PhotoGhostsSame
    /\ UNCHANGED <<queue, duels, now, running, pendingLeave, consumed>>
    /\ MemSame

\* bot.get_file / bot.download_file raising: the handler ends there
PhotoDownloadFails(u, id) ==
    /\ BagIn(<<u, id>>, downloading)
    /\ downloading' = downloading (-) SetToBag({<<u, id>>})
    /\ last' = Idle
    /\ PhotoGhostsSame
    /\ UNCHANGED <<queue, duels, now, running, pendingLeave, consumed>>
    /\ MemSame

\* The photo flags of a duel row as <<the user's own, the opponent's>>.
Flags(duel, u) ==
    IF duel.user_a_id = u
    THEN <<duel.photo_a_received, duel.photo_b_received>>
    ELSE <<duel.photo_b_received, duel.photo_a_received>>

\* on_photo_received after the download: db.mark_duel_photo_received, and
\* run_duel entered when it returns True.  last.note: whether the user's flag
\* was set already.
PhotoMark(u, id) ==
    /\ BagIn(<<u, id>>, downloading)
    /\ downloading' = downloading (-) SetToBag({<<u, id>>})
    /\ LET r == mark_duel_photo_received(Db(queue, duels), id, u)
           before == Flags(duels[id], u)
       IN /\ Store(r)
          /\ running' = IF r.val THEN running (+) SetToBag({id}) ELSE running
          /\ last' = Op("mark", 0, 0, id, r.raised, r.val,
                        IF before[1] THEN {u} ELSE {})
    /\ UNCHANGED <<now, pendingLeave, scorerCalls, failedDuels, consumed>>
    /\ MemSame

\* run_duel: the Scorer returns scores, update_duel_result is called.
\* last.ok: the Scorer returned; last.raised: what update_duel_result raised.
RunDuelScored(id) ==
    /\ BagIn(id, running)
    /\ scorerCalls[id] < MaxScorerCalls
    /\ running' = running (-) SetToBag({id})
    /\ scorerCalls' = [scorerCalls EXCEPT ![id] = @ + 1]
    /\ \E raw \in ScorePairs :
          LET r == run_duel(Db(queue, duels), id, raw[1], raw[2]) IN
          /\ Store(r)
          /\ last' = Op("run_duel", 0, 0, id, r.raised, TRUE, r.note)
    /\ UNCHANGED <<now, downloading, pendingLeave, failedDuels, consumed>>
    /\ MemSame

\* run_duel: the Scorer raises (a photo file missing or unreadable, the model)
RunDuelScorerRaises(id) ==
    /\ BagIn(id, running)
    /\ scorerCalls[id] < MaxScorerCalls
    /\ running' = running (-) SetToBag({id})
    /\ scorerCalls' = [scorerCalls EXCEPT ![id] = @ + 1]
    /\ failedDuels' = IF duels[id].status = "scoring"
                      THEN failedDuels \cup {<<id, Len(duels)>>}
                      ELSE failedDuels
    /\ LET r == run_duel_except(Db(queue, duels), id) IN
          /\ Store(r)
          /\ last' = Op("run_duel", 0, 0, id, "ScoringFailed", FALSE, r.val)
    /\ UNCHANGED <<now, downloading, pendingLeave, consumed>>
    /\ MemSame

\* The random-queue flows of handlers.py: find_random, photos, scoring,
\* /start and exit_queue, by any users in any interleaving.
Next ==
    \/ \E u \in Users : OnFindRandom(u)
    \/ \E u \in Users : CmdStart(u)
    \/ \E u \in Users : OnExitQueue(u)
    \/ \E u \in Users : PhotoOpen(u)
    \/ \E u \in Users, id \in DuelIds : PhotoDownloadFails(u, id)
    \/ \E u \in Users, id \in DuelIds : PhotoMark(u, id)
    \/ \E id \in DuelIds : RunDuelScored(id)
    \/ \E id \in DuelIds : RunDuelScorerRaises(id)

Spec == Init /\ [][Next]_vars



\* A participant cancels while photo handlers of the opponent may be in
\* flight: the flows of Spec, with /start and exit_queue pressed by a user
\* who has no photo handler of their own in flight, at a moment when no
\* run_duel is in flight.  Every handler that then resumes on a cancelled
\* duel is a photo handler of the opponent that had read the duel before the
\* cancellation.
CancelsAlone(u) ==
    /\ running = EmptyBag
    /\ \A id \in DuelIds : ~BagIn(<<u, id>>, downloading)

NextRace ==
    \/ \E u \in Users : OnFindRandom(u)
    \/ \E u \in Users : CancelsAlone(u) /\ CmdStart(u)
    \/ \E u \in Users : CancelsAlone(u) /\ OnExitQueue(u)
    \/ \E u \in Users : PhotoOpen(u)
    \/ \E u \in Users, id \in DuelIds : PhotoDownloadFails(u, id)
    \/ \E u \in Users, id \in DuelIds : PhotoMark(u, id)
    \/ \E id \in DuelIds : RunDuelScored(id)
    \/ \E id \in DuelIds : RunDuelScorerRaises(id)

SpecRace == Init /\ [][NextRace]_vars

\* run_duel: ml.score_duel_by_user_ids neither returns nor raises.  The call
\* is synchronous, made on the thread of the event loop with no timeout
\* around it, so from here on the loop resumes no coroutine and takes no
\* update.
RunDuelScorerHangs(id) ==
    /\ BagIn(id, running)
    /\ scorerCalls[id] < MaxScorerCalls
    /\ running' = running (-) SetToBag({id})
    /\ scorerCalls' = [scorerCalls EXCEPT ![id] = @ + 1]
    /\ in_scorer' = id
    /\ last' = Idle
    /\ UNCHANGED <<queue, duels, now, downloading, pendingLeave, failedDuels,
                   consumed, room_objects, rooms, waiting_players,
                   fsm_state, coroutines>>

\* Pairing, photos and scoring, the Scorer returning, raising or hanging.
\* The event loop runs a handler only while its thread is free.
NextScorer ==
    \/ \E u \in Users : in_scorer = 0 /\ OnFindRandom(u)
    \/ \E u \in Users : in_scorer = 0 /\ PhotoOpen(u)
    \/ \E u \in Users, id \in DuelIds :
          in_scorer = 0 /\ PhotoDownloadFails(u, id)
    \/ \E u \in Users, id \in DuelIds : in_scorer = 0 /\ PhotoMark(u, id)
    \/ \E id \in DuelIds : in_scorer = 0 /\ RunDuelScored(id)
    \/ \E id \in DuelIds : in_scorer = 0 /\ RunDuelScorerRaises(id)
    \/ \E id \in DuelIds : in_scorer = 0 /\ RunDuelScorerHangs(id)

\* A suspended handler whose await is over is resumed by the loop, and a
\* run_duel that is resumed calls the Scorer.
Resumed(u, id) ==
    in_scorer = 0 /\ (PhotoMark(u, id) \/ PhotoDownloadFails(u, id))
ScorerCalled(id) ==
    /\ in_scorer = 0
    /\ (RunDuelScored(id) \/ RunDuelScorerRaises(id) \/ RunDuelScorerHangs(id))

SpecScorer ==
    Init /\ [][NextScorer]_vars
         /\ (\A u \in Users, id \in DuelIds : WF_vars(Resumed(u, id)))
         /\ (\A id \in DuelIds : WF_vars(ScorerCalled(id)))

\* The room flows of handlers.py: create_room, join by code, exit_queue, and
\* find_random, whose code-less rows a join by code can meet.  A handler
\* that can insert a row runs while duel_queue has fewer than MaxRoomQueue.
NextRooms ==
    \/ \E u \in Users : Len(queue) < MaxRoomQueue /\ OnCreateRoom(u)
    \/ \E u \in Users, code \in JoinCodes :
          Len(queue) < MaxRoomQueue /\ OnCodeText(u, code)
    \/ \E u \in Users : Len(queue) < MaxRoomQueue /\ OnFindRandom(u)
    \/ \E u \in Users : CodeNotFoundLeave(u)
    \/ \E u \in Users : CodeNotFoundSendFails(u)
    \/ \E u \in Users : OnExitQueue(u)

SpecRooms == Init /\ [][NextRooms]_vars

(***************************************************************************)
(* The queue handlers of handlers.py with the clock moving: rooms and      *)
(* random-queue rows outlive their expires_at, since no handler runs       *)
(* cleanup_expired_queues.                                                 *)
(***************************************************************************)
MaxClock == 5        \* minutes the clock runs in SpecClock
MaxClockQueue == 3   \* rows of duel_queue inserted in SpecClock

\* datetime.now(timezone.utc) read later: the wait of a room has gone by (and
\* with it the shorter wait of the random queue)
Elapse ==
    /\ now + ROOM_WAIT_MINUTES <= MaxClock
    /\ now' = now + ROOM_WAIT_MINUTES
    /\ last' = Idle
    /\ UNCHANGED <<queue, duels, downloading, running, pendingLeave,
                   scorerCalls, failedDuels, consumed>>
    /\ MemSame

NextClock ==
    \/ Elapse
    \/ \E u \in Users : Len(queue) < MaxClockQueue /\ OnCreateRoom(u)
    \/ \E u \in Users, code \in JoinCodes :
          Len(queue) < MaxClockQueue /\ OnCodeText(u, code)
    \/ \E u \in Users : Len(queue) < MaxClockQueue /\ OnFindRandom(u)
    \/ \E u \in Users : CodeNotFoundLeave(u)
    \/ \E u \in Users : CodeNotFoundSendFails(u)
    \/ \E u \in Users : OnExitQueue(u)

SpecClock == Init /\ [][NextClock]_vars

(***************************************************************************)
(* The in-memory room flow: the handlers of handlers/duel.py over the      *)
(* GameManager of game_state.py and the FSM state of each user.  A handler *)
(* is cut where it awaits Telegram (answer, send_message, get_file,        *)
(* download_file, send_media_group) and at the state read between          *)
(* find_room_by_user and mark_photo; a write of the FSM storage is taken   *)
(* with the block it follows.  A suspended handler is a record of          *)
(* `coroutines`: the user, where it stands, and the room object it holds.  *)
(***************************************************************************)
MaxRooms == 2        \* GameRoom objects ever made
MaxCoroutines == 2   \* handlers of handlers/duel.py suspended at the same time
MaxSavedDuels == 1   \* rows save_duel inserts
create_room_draws == 10   \* GameManager.create_room: for _ in range(10)

\* states.py: UserStates, and None for a user the storage has no state of
UserStates == {"None", "Idle", "SearchingRandom", "CreatingRoom",
               "JoiningRoom", "InRoom", "InDuel"}

\* the raw scores the Scorer returns in this flow (a sample of ScorePairs)
RoomScorePairs == {<<7000000, 4000000>>}

Coroutine(user, pc, room) == [user |-> user, pc |-> pc, room |-> room]

\* set_user_state: storage.set_state(key=user_id, state=new_state), an
\* exception swallowed (the storage of bot.py is in memory)
set_user_state(fsm, user_id, new_state) ==
    [fsm EXCEPT ![user_id] = new_state]

TheGm == Gm(room_objects, rooms, waiting_players)

\* A GameRoom no entry of the dict and no suspended handler refers to is
\* freed by the interpreter: what it held is gone.
Freed == GameRoom(<<>>, 0, 0, None)
Collect(objs, rs, cs) ==
    [i \in DOMAIN objs |->
        IF (\E r \in DOMAIN rs : rs[r][2] = i) \/ (\E c \in cs : c.room = i)
        THEN objs[i] ELSE Freed]

\* The manager after a block, within the bounds.
GmStore(gm) ==
    /\ Len(gm.objs) <= MaxRooms
    /\ room_objects' = Collect(gm.objs, gm.rooms, coroutines)
    /\ rooms' = gm.rooms
    /\ waiting_players' = gm.waiting

GmSame == UNCHANGED <<room_objects, rooms, waiting_players>>

\* The tables and ghosts of the Database flows, which this flow leaves alone
\* (save_duel apart).
TablesSame ==
    UNCHANGED <<queue, now, downloading, running, pendingLeave, scorerCalls,
                failedDuels, consumed, in_scorer>>

\* on_create_room
RoomCreate(u) ==
    /\ IF fsm_state[u] \notin {"None", "Idle"}
       THEN GmSame /\ UNCHANGED fsm_state
       ELSE /\ \E o \in GameManager_create_room(TheGm, u, create_room_draws) :
                  GmStore(o[1])
            /\ fsm_state' = set_user_state(fsm_state, u, "InRoom")
    /\ last' = Idle
    /\ TablesSame /\ UNCHANGED <<duels, coroutines>>

\* on_join_room_request
RoomJoinRequest(u) ==
    /\ fsm_state' = IF fsm_state[u] \in {"None", "Idle"}
                    THEN set_user_state(fsm_state, u, "JoiningRoom")
                    ELSE fsm_state
    /\ last' = Idle
    /\ GmSame /\ TablesSame /\ UNCHANGED <<duels, coroutines>>

\* on_code_text up to its first Telegram call: join_room_by_code; no room:
\* suspended in answer("room not found"); a room: the host is set InRoom and
\* the task is stored in the room
RoomCodeText(u, code) ==
    /\ IF fsm_state[u] # "JoiningRoom"
       THEN GmSame /\ UNCHANGED <<fsm_state, coroutines>>
       ELSE LET j == join_room_by_code(TheGm, code, u) IN
            IF j[2] = 0
            THEN /\ Cardinality(coroutines) < MaxCoroutines
                 /\ coroutines' = coroutines \cup {Coroutine(u, "notfound", 0)}
                 /\ GmSame /\ UNCHANGED fsm_state
            ELSE /\ \E task \in Tasks :
                       GmStore(Gm([j[1].objs EXCEPT
                                      ![j[2]].task_text = Some(task)],
                                  j[1].rooms, j[1].waiting))
                 /\ fsm_state' = set_user_state(fsm_state,
                                                j[1].objs[j[2]].host_id,
                                                "InRoom")
                 /\ UNCHANGED coroutines
    /\ last' = Idle
    /\ TablesSame /\ UNCHANGED duels

\* on_code_text after answer("room not found"): state.set_state(Idle)
RoomCodeNotFoundIdle(u) ==
    /\ Coroutine(u, "notfound", 0) \in coroutines
    /\ coroutines' = coroutines \ {Coroutine(u, "notfound", 0)}
    /\ fsm_state' = set_user_state(fsm_state, u, "Idle")
    /\ last' = Idle
    /\ GmSame /\ TablesSame /\ UNCHANGED duels

\* on_find_random
RoomFindRandom(u) ==
    /\ IF fsm_state[u] \notin {"None", "Idle"}
       THEN GmSame /\ UNCHANGED fsm_state
       ELSE LET f == find_or_enqueue_for_random(TheGm, u, now,
                                                RANDOM_MATCH_TIMEOUT)
                opponent == f[2]
                p == create_room_for_pair(f[1], u, opponent)
            IN IF opponent = 0
               THEN /\ GmStore(f[1])
                    /\ fsm_state' =
                           set_user_state(fsm_state, u, "SearchingRandom")
               ELSE /\ \E task \in Tasks :
                          GmStore(Gm([p[1].objs EXCEPT
                                         ![p[2]].task_text = Some(task)],
                                     p[1].rooms, p[1].waiting))
                    /\ fsm_state' =
                           set_user_state(
                               set_user_state(fsm_state, opponent, "InRoom"),
                               u, "InRoom")
    /\ last' = Idle
    /\ TablesSame /\ UNCHANGED <<duels, coroutines>>

\* on_photo_received up to its first read of shared state: get_file,
\* download_file and answer("photo received") touch nothing the other handlers
\* see, then find_room_by_user; no room: suspended in answer("not in a
\* room"); a room: suspended in get_state, holding the room
RoomPhotoOpen(u) ==
    /\ Cardinality(coroutines) < MaxCoroutines
    /\ LET room == find_room_by_user(TheGm, u)
           next == IF room = 0 THEN Coroutine(u, "noroom", 0)
                   ELSE Coroutine(u, "state", room)
       IN /\ next \notin coroutines
          /\ coroutines' = coroutines \cup {next}
    /\ last' = Idle
    /\ GmSame /\ TablesSame /\ UNCHANGED <<duels, fsm_state>>

\* get_file, download_file or answer("photo received") raising: the handler
\* ends there, before it has looked for the room
RoomPhotoDownloadFails(u) ==
    /\ Cardinality(coroutines) < MaxCoroutines
    /\ last' = Idle
    /\ GmSame /\ TablesSame /\ UNCHANGED <<duels, fsm_state, coroutines>>

\* on_photo_received after answer("not in a room"): state.set_state(Idle)
RoomPhotoNoRoomIdle(u) ==
    /\ Coroutine(u, "noroom", 0) \in coroutines
    /\ coroutines' = coroutines \ {Coroutine(u, "noroom", 0)}
    /\ fsm_state' = set_user_state(fsm_state, u, "Idle")
    /\ last' = Idle
    /\ GmSame /\ TablesSame /\ UNCHANGED duels

\* answer("room not found") or answer("not in a room") raising: the handler
\* ends before its state.set_state(Idle)
RoomAnswerFails(u) ==
    /\ \E pc \in {"notfound", "noroom"} :
          /\ Coroutine(u, pc, 0) \in coroutines
          /\ coroutines' = coroutines \ {Coroutine(u, pc, 0)}
    /\ last' = Idle
    /\ GmSame /\ TablesSame /\ UNCHANGED <<duels, fsm_state>>

\* a barrier that does not look at evaluation_started
RoomPhotoMarkUnlatched(u, id) ==
    /\ Coroutine(u, "state", id) \in coroutines
    /\ LET room == mark_photo(room_objects[id], u)
           start == both_photos_received(room)
       IN IF start
          THEN /\ Coroutine(u, "analysis", id) \notin coroutines
               /\ room_objects' =
                      [room_objects EXCEPT
                          ![id] = [room EXCEPT !.evaluation_started = TRUE]]
               /\ fsm_state' =
                      set_user_state(
                          set_user_state(
                              set_user_state(fsm_state, u, "InDuel"),
                              room.host_id, "InDuel"),
                          room.guest_id, "InDuel")
               /\ coroutines' = (coroutines \ {Coroutine(u, "state", id)})
                                    \cup {Coroutine(u, "analysis", id)}
          ELSE /\ coroutines' = coroutines \ {Coroutine(u, "state", id)}
               /\ room_objects' =
                      Collect([room_objects EXCEPT ![id] = room], rooms,
                              coroutines')
               /\ UNCHANGED fsm_state
    /\ last' = Idle
    /\ TablesSame /\ UNCHANGED <<duels, rooms, waiting_players>>

\* on_photo_received from room.mark_photo on: the barrier; when it closes,
\* evaluation_started is set, the three states are set InDuel and the handler
\* is suspended in send_duel_photos and then, inside run_duel_and_notify, in
\* notify_users("analysis")
RoomPhotoMark(u, id) ==
    /\ Coroutine(u, "state", id) \in coroutines
    /\ LET room == mark_photo(room_objects[id], u)
           start == both_photos_received(room) /\ ~room.evaluation_started
       IN IF start
          THEN /\ Coroutine(u, "analysis", id) \notin coroutines
               /\ room_objects' =
                      [room_objects EXCEPT
                          ![id] = [room EXCEPT !.evaluation_started = TRUE]]
               /\ fsm_state' =
                      set_user_state(
                          set_user_state(
                              set_user_state(fsm_state, u, "InDuel"),
                              room.host_id, "InDuel"),
                          room.guest_id, "InDuel")
               /\ coroutines' = (coroutines \ {Coroutine(u, "state", id)})
                                    \cup {Coroutine(u, "analysis", id)}
          ELSE /\ coroutines' = coroutines \ {Coroutine(u, "state", id)}
               /\ room_objects' =
                      Collect([room_objects EXCEPT ![id] = room], rooms,
                              coroutines')
               /\ UNCHANGED fsm_state
    /\ last' = Idle
    /\ TablesSame /\ UNCHANGED <<duels, rooms, waiting_players>>

\* run_duel_and_notify, the try block from ml.score_duel_by_user_ids to
\* db.save_duel: both return, the handler is suspended in room_notify_result
RoomRunScored(u, id) ==
    /\ Coroutine(u, "analysis", id) \in coroutines
    /\ \E raw \in RoomScorePairs :
          LET room == room_objects[id]
              task_text == IF room.task_text = None THEN "neutral"
                           ELSE room.task_text[1]
              scores == score_duel_by_user_ids(raw[1], raw[2])
              saved == save_duel(Db(queue, duels), room.host_id,
                                 room.guest_id, task_text, scores.score_a,
                                 scores.score_b, now)
          IN /\ Len(saved.d) <= MaxSavedDuels
             /\ duels' = saved.d
    /\ coroutines' = (coroutines \ {Coroutine(u, "analysis", id)})
                         \cup {Coroutine(u, "result", id)}
    /\ last' = Idle
    /\ GmSame /\ TablesSame /\ UNCHANGED fsm_state

\* the same block, the Scorer or save_duel raising: the except branch, the
\* handler suspended in notify_users("analysis failed")
RoomRunRaises(u, id) ==
    /\ Coroutine(u, "analysis", id) \in coroutines
    /\ coroutines' = (coroutines \ {Coroutine(u, "analysis", id)})
                         \cup {Coroutine(u, "error", id)}
    /\ last' = Idle
    /\ GmSame /\ TablesSame /\ UNCHANGED <<duels, fsm_state>>

\* run_duel_and_notify's finally: both players set Idle, the room removed.
\* val: the dict afterwards.
run_duel_and_notify_finally(fsm, rs, room) ==
    [fsm |-> set_user_state(set_user_state(fsm, room.host_id, "Idle"),
                            room.guest_id, "Idle"),
     rooms |-> remove_room(rs, room.code)]

\* run_duel_and_notify after room_notify_result or after the failure notice:
\* the finally block.  last.ok: the try block ended without an exception.
RoomRunFinally(u, id) ==
    /\ \E pc \in {"result", "error"} :
          /\ Coroutine(u, pc, id) \in coroutines
          /\ coroutines' = coroutines \ {Coroutine(u, pc, id)}
          /\ last' = Op("run_duel_and_notify", room_objects[id].host_id,
                        room_objects[id].guest_id, id,
                        IF pc = "error" THEN "Exception" ELSE "",
                        pc = "result", {})
    /\ LET f == run_duel_and_notify_finally(fsm_state, rooms,
                                            room_objects[id])
       IN /\ fsm_state' = f.fsm
          /\ rooms' = f.rooms
          /\ room_objects' = Collect(room_objects, f.rooms, coroutines')
    /\ TablesSame /\ UNCHANGED <<duels, waiting_players>>

RoomIds == 1 .. MaxRooms
\* the users that take part in the in-memory flow
Players == {1, 2}

\* The in-memory room flow, by any users in any interleaving.
NextMem ==
    \/ \E u \in Players : RoomCreate(u)
    \/ \E u \in Players : RoomJoinRequest(u)
    \/ \E u \in Players, code \in CodeTexts : RoomCodeText(u, code)
    \/ \E u \in Players : RoomCodeNotFoundIdle(u)
    \/ \E u \in Players : RoomFindRandom(u)
    \/ \E u \in Players : RoomPhotoOpen(u)
    \/ \E u \in Players : RoomPhotoDownloadFails(u)
    \/ \E u \in Players : RoomPhotoNoRoomIdle(u)
    \/ \E u \in Players : RoomAnswerFails(u)
    \/ \E u \in Players, id \in RoomIds : RoomPhotoMark(u, id)
    \/ \E u \in Players, id \in RoomIds : RoomRunScored(u, id)
    \/ \E u \in Players, id \in RoomIds : RoomRunRaises(u, id)
    \/ \E u \in Players, id \in RoomIds : RoomRunFinally(u, id)

\* What run_duel_and_notify awaits returns or raises, so a suspended run of
\* it goes on: from the analysis notice to the try block's end or its except
\* branch, and from the result or failure notice to the finally block.
RunStep(u, id) ==
    \/ RoomRunScored(u, id)
    \/ RoomRunRaises(u, id)
    \/ RoomRunFinally(u, id)

SpecMem ==
    Init /\ [][NextMem]_vars
         /\ \A u \in Players, id \in RoomIds : WF_vars(RunStep(u, id))

(***************************************************************************)
(* The Database methods called directly, in any order and with any         *)
(* arguments, each call one transaction.                                   *)
(***************************************************************************)
\* The tables after a call, with at most `rows` rows of duel_queue.
DbStore(rows, o) ==
    /\ Len(o.q) <= rows
    /\ Store(o)

DbSame == UNCHANGED <<now, downloading, running, pendingLeave, scorerCalls,
                      failedDuels, room_objects, rooms, waiting_players,
                      fsm_state, coroutines, in_scorer>>

DbJoinQueue(u, code, rows) ==
    /\ DbStore(rows, join_queue(Db(queue, duels), u, code, now))
    /\ last' = Idle
    /\ DbSame /\ UNCHANGED consumed

DbCreateRoom(u, rows) ==
    /\ \E r \in create_room(Db(queue, duels), u, now) : DbStore(rows, r)
    /\ last' = Idle
    /\ DbSame /\ UNCHANGED consumed

DbLeaveQueue(u) ==
    /\ Store(leave_queue(Db(queue, duels), u))
    /\ last' = Idle
    /\ DbSame /\ UNCHANGED consumed

\* last.ok: the call returned; last.note: the fault that hit the call
DbCreateDuelFromQueue(u, o, fault) ==
    /\ \E task \in Tasks :
          LET r == create_duel_from_queue(Db(queue, duels), u, o, now, task,
                                          fault)
          IN /\ Store(r)
             /\ consumed' = IF r.raised = ""
                            THEN [consumed EXCEPT ![r.val[1]] =
                                                      {r.val[2], r.val[3]}]
                            ELSE consumed
             /\ last' = Op("create_duel_from_queue", u, o, r.val[1], r.raised,
                           r.raised = "", {fault})
    /\ DbSame

DbCancelDuelOnStart(u) ==
    /\ \E pick \in CancelPicks(Db(queue, duels), u) :
          Store(cancel_duel_on_start(Db(queue, duels), u, pick))
    /\ last' = Idle
    /\ DbSame /\ UNCHANGED consumed

DbCleanupExpiredQueues ==
    /\ Store(cleanup_expired_queues(Db(queue, duels), now))
    /\ last' = Idle
    /\ DbSame /\ UNCHANGED consumed

\* All of them, the clock moving in between.
NextDb ==
    \/ Tick
    \/ \E u \in Users, c \in RoomCodes : DbJoinQueue(u, Some(c), MaxDbQueue)
    \/ \E u \in Users : DbJoinQueue(u, None, MaxDbQueue)
    \/ \E u \in Users : DbCreateRoom(u, MaxDbQueue)
    \/ \E u \in Users : DbLeaveQueue(u)
    \/ \E u \in Users, o \in Users, fault \in Faults :
          u # o /\ DbCreateDuelFromQueue(u, o, fault)
    \/ \E u \in Users : DbCancelDuelOnStart(u)
    \/ DbCleanupExpiredQueues

SpecDb == Init /\ [][NextDb]_vars

\* Pairing only: users enter and leave the random queue and are paired, any
\* call of create_duel_from_queue possibly hit by a fault.
NextPair ==
    \/ \E u \in Users : DbJoinQueue(u, None, MaxQueue)
    \/ \E u \in Users : DbLeaveQueue(u)
    \/ \E u \in Users, o \in Users, fault \in Faults :
          u # o /\ DbCreateDuelFromQueue(u, o, fault)

SpecPair == Init /\ [][NextPair]_vars

(***************************************************************************)
(* The duels table filled over time: duels saved as completed, users       *)
(* paired, a result committed, a duel cancelled, the clock moving.         *)
(***************************************************************************)
MaxHistory == 11     \* rows of duels inserted in SpecHistory
MaxHistQueue == 2    \* rows of duel_queue inserted in SpecHistory
history_limit == 10  \* my_stats: db.get_user_history(user_id, limit=10)

HistStore(o) ==
    /\ Len(o.q) <= MaxHistQueue
    /\ Len(o.d) <= MaxHistory
    /\ queue' = o.q
    /\ duels' = o.d

HistSaveDuel(a, b) ==
    /\ \E raw \in RoomScorePairs :
          LET scores == score_duel_by_user_ids(raw[1], raw[2]) IN
          HistStore(save_duel(Db(queue, duels), a, b, "joy", scores.score_a,
                              scores.score_b, now))
    /\ last' = Idle
    /\ DbSame /\ UNCHANGED consumed

HistJoinQueue(u) ==
    /\ HistStore(join_queue(Db(queue, duels), u, None, now))
    /\ last' = Idle
    /\ DbSame /\ UNCHANGED consumed

HistCreateDuelFromQueue(u, o) ==
    /\ \E task \in Tasks :
          HistStore(create_duel_from_queue(Db(queue, duels), u, o, now, task,
                                           "none"))
    /\ last' = Idle
    /\ DbSame /\ UNCHANGED consumed

HistUpdateDuelResult(id) ==
    /\ id \in DOMAIN duels
    /\ duels[id].status \in ActiveStatus
    /\ \E raw \in RoomScorePairs :
          LET scores == score_duel_by_user_ids(raw[1], raw[2]) IN
          HistStore(update_duel_result(Db(queue, duels), id, scores.score_a,
                                       scores.score_b, duels[id].task_text))
    /\ last' = Idle
    /\ DbSame /\ UNCHANGED consumed

HistCancelDuelOnStart(u) ==
    /\ \E pick \in CancelPicks(Db(queue, duels), u) :
          HistStore(cancel_duel_on_start(Db(queue, duels), u, pick))
    /\ last' = Idle
    /\ DbSame /\ UNCHANGED consumed

HistoryIds == 1 .. MaxHistory

NextHistory ==
    \/ Tick
    \/ HistSaveDuel(1, 2)
    \/ \E u \in {2, 3} : HistJoinQueue(u)
    \/ HistCreateDuelFromQueue(3, 2)
    \/ \E id \in HistoryIds : HistUpdateDuelResult(id)
    \/ HistCancelDuelOnStart(3)

SpecHistory == Init /\ [][NextHistory]_vars


(***************************************************************************)
(* The repair and sweep methods, run at any time between the calls that    *)
(* fill duel_queue.                                                        *)
(***************************************************************************)
MaxRepairQueue == 3  \* rows of duel_queue inserted in SpecRepair

\* last.note: the count the method returned
RepairDuplicateQueues ==
    /\ LET r == cleanup_duplicate_queues(Db(queue, duels)) IN
          /\ Store(r)
          /\ last' = Op("cleanup_duplicate_queues", 0, 0, 0, r.raised,
                        r.raised = "", {r.val})
    /\ DbSame /\ UNCHANGED consumed

RepairExpiredQueues ==
    /\ LET r == cleanup_expired_queues(Db(queue, duels), now) IN
          /\ Store(r)
          /\ last' = Op("cleanup_expired_queues", 0, 0, 0, r.raised,
                        r.raised = "", {r.val})
    /\ DbSame /\ UNCHANGED consumed

NextRepair ==
    \/ Tick
    \/ \E u \in Users : DbJoinQueue(u, None, MaxRepairQueue)
    \/ \E u \in Users : DbCreateRoom(u, MaxRepairQueue)
    \/ \E u \in Users : DbLeaveQueue(u)
    \/ RepairDuplicateQueues
    \/ RepairExpiredQueues

SpecRepair == Init /\ [][NextRepair]_vars

(***************************************************************************)
(* Properties.                                                             *)
(***************************************************************************)
Participants(duel) == {duel.user_a_id, duel.user_b_id}

\* C1 (SpecDb): after any sequence of join_queue, create_room, leave_queue,
\* create_duel_from_queue, cancel_duel_on_start and cleanup_expired_queues,
\* every user has at most one duel_queue row with status 'waiting'.
C1_AtMostOneWaitingRow ==
    \A u \in Users : Cardinality(WaitingOf(queue, u)) <= 1

\* C2 (Spec): in every state the handler flows reach, no user is a participant
\* of more than one duel whose status is waiting_photos or scoring.
C2_AtMostOneActiveDuel ==
    \A u \in Users : Cardinality(ActiveDuelsOf(Db(queue, duels), u)) <= 1

\* C3 (SpecPair): create_duel_from_queue(user, opponent) is all-or-nothing.
\* A call that returns turned one waiting row of each user into 'matched',
\* touched no other row and added exactly one duel, in waiting_photos, of the
\* two users; a call that raises (a row missing, or a fault at any step)
\* leaves both tables as they were; and a call with a row missing or hit by a
\* fault does raise.
C3_PairingAllOrNothing ==
    [][last'.op = "create_duel_from_queue" =>
          LET u == last'.user
              o == last'.other
              new == Len(duels) + 1
          IN /\ IF last'.ok
                THEN /\ \E i \in WaitingOf(queue, u), j \in WaitingOf(queue, o) :
                           queue' = [queue EXCEPT ![i].status = "matched",
                                                  ![j].status = "matched"]
                     /\ Len(duels') = new
                     /\ SubSeq(duels', 1, Len(duels)) = duels
                     /\ duels'[new].status = "waiting_photos"
                     /\ Participants(duels'[new]) = {u, o}
                ELSE queue' = queue /\ duels' = duels
             /\ (WaitingOf(queue, u) = {} \/ WaitingOf(queue, o) = {}
                    \/ last'.note # {"none"}) => ~last'.ok]_vars

\* C3 witness: a call found both rows, wrote the duel and the first row, and
\* failed at the commit, while an earlier call had made a duel.
C3_CommitFaultAfterWrites ==
    /\ last.op = "create_duel_from_queue"
    /\ last.note = {"commit"}
    /\ last.raised = "Exception"
    /\ \E d \in DOMAIN duels : duels[d].status = "waiting_photos"

\* C4 (Spec): for every duel, under any interleaving of the photo handlers,
\* the Scorer is called at most once.
C4_ScoringTriggeredAtMostOnce ==
    \A d \in DuelIds : scorerCalls[d] <= 1

\* C5 (Spec): a photo from a participant whose flag is already set, while the
\* opponent's is not, reports "waiting" and leaves the duel row (its status
\* with it) exactly as the first photo left it; a mark reports BothReceived
\* for an open barrier only when it is the first photo of the opponent of the
\* one who already sent; and that photo does report it and moves
\* waiting_photos to scoring.
C5_RepeatedPhotoIdempotent ==
    [][last'.op = "mark" =>
          LET id == last'.duel
              a == duels[id].photo_a_received
              b == duels[id].photo_b_received
          IN /\ (last'.note # {} /\ ~(a /\ b))
                    => (~last'.ok /\ duels' = duels)
             /\ (last'.ok /\ ~(a /\ b)) => (last'.note = {} /\ a # b)
             /\ (last'.note = {} /\ a # b)
                    => /\ last'.ok
                       /\ duels[id].status = "waiting_photos"
                              => duels'[id].status = "scoring"]_vars

\* C5 witness: a participant's second photo was marked before the opponent's
\* first, and reported "waiting".
C5_SecondPhotoBeforeOpponent ==
    /\ last.op = "mark"
    /\ last.note # {}
    /\ ~last.ok
    /\ duels[last.duel].status = "waiting_photos"
    /\ duels[last.duel].photo_a_received # duels[last.duel].photo_b_received

C7_CancelLeavesNothingActive ==
    [][\A d \in DOMAIN duels :
          (duels[d].status \in ActiveStatus /\ duels'[d].status = "cancelled")
              => \A x \in Participants(duels[d]) :
                    /\ WaitingOf(queue', x) = {}
                    /\ ActiveDuelsOf(Db(queue', duels'), x) = {}]_vars

\* C8 (Spec): the winner committed with the result is user_a when
\* score_a > score_b, user_b when score_b > score_a, and null whenever
\* |score_a - score_b| < eps_draw (stored scores are in units of 1e-6).
C8_WinnerRespectsDrawThreshold ==
    \A d \in DOMAIN duels :
        duels[d].status = "completed" =>
            LET score_a == duels[d].score_a[1]
                score_b == duels[d].score_b[1]
            IN duels[d].winner_user_id =
                   IF Abs(score_a - score_b) < eps_draw \div 10 THEN None
                   ELSE IF score_a > score_b THEN Some(duels[d].user_a_id)
                   ELSE Some(duels[d].user_b_id)

\* C9 (Spec): when the Scorer raises for a duel whose status is scoring, the
\* tables are left as they were, the duel still scoring with score_a, score_b
\* and winner_user_id null, and both participants are sent the
\* analysis-failed notice.
C9_ScorerFailureLeavesScoring ==
    [][(last'.op = "run_duel" /\ ~last'.ok
            /\ duels[last'.duel].status = "scoring") =>
          LET id == last'.duel IN
          /\ queue' = queue /\ duels' = duels
          /\ duels'[id].status = "scoring"
          /\ duels'[id].score_a = None
          /\ duels'[id].score_b = None
          /\ duels'[id].winner_user_id = None
          /\ last'.note = Participants(duels[id])]_vars

\* C9 witness: the Scorer has just raised for a duel that was, and is, scoring.
C9_ScorerRaisedOnScoringDuel ==
    /\ last.op = "run_duel"
    /\ ~last.ok
    /\ \E f \in failedDuels : f[1] = last.duel
    /\ duels[last.duel].status = "scoring"

\* C10 (Spec): after the Scorer failed on a duel, a duel of either
\* participant made after that failure, both photos in (status scoring) and
\* the Scorer returning, is committed as completed.
C10_LaterDuelCompletes ==
    [][(last'.op = "run_duel" /\ last'.ok) =>
          LET id == last'.duel IN
          (/\ duels[id].status = "scoring"
           /\ \E f \in failedDuels :
                 /\ f[2] < id
                 /\ Participants(duels[f[1]]) \cap Participants(duels[id]) # {})
              => duels'[id].status = "completed"]_vars


\* A run of run_duel_and_notify for room object id is under way: a handler
\* is suspended in it, before its finally block.
Scoring(id) ==
    \E c \in coroutines : c.room = id /\ c.pc \in {"analysis", "result", "error"}

\* The teardown of room object id has just been done: the finally block of
\* its run ended, the room is under no code of GameManager.rooms and both
\* of its players are in state Idle.
TornDown(id) ==
    /\ last.op = "run_duel_and_notify"
    /\ last.duel = id
    /\ \A r \in DOMAIN rooms : rooms[r][2] # id
    /\ fsm_state[last.user] = "Idle"
    /\ fsm_state[last.other] = "Idle"

RoomRowOf(q, x, c, t) ==
    IF \E i \in DOMAIN q : /\ WaitingOf(q, x) = {i}
                           /\ q[i].room_code = Some(c)
                           /\ q[i].expires_at > t
    THEN TheOne(WaitingOf(q, x)) ELSE 0

\* C12 (SpecRooms): in every state the room flows reach, when X waits in the
\* room it created (one waiting, unexpired row, code c) and Y has no waiting
\* row, Y submitting c makes exactly one duel, of X and Y, with room_code c
\* and status waiting_photos, and leaves X's row and Y's new row 'matched',
\* every other row as it was.
C12_JoinByCodeMakesOneDuel ==
    \A x \in Users, y \in Users, c \in RoomCodes, task \in Tasks :
        (x # y /\ WaitingOf(queue, y) = {}
               /\ RoomRowOf(queue, x, c, now) # 0) =>
            LET o == on_code_text(Db(queue, duels), y, c, now, task)
                i == RoomRowOf(queue, x, c, now)
                j == Len(queue) + 1
                new == Len(duels) + 1
            IN /\ o.raised = "" /\ o.out = "paired" /\ o.duel = new
               /\ Len(o.d) = new
               /\ SubSeq(o.d, 1, Len(duels)) = duels
               /\ Participants(o.d[new]) = {x, y}
               /\ o.d[new].room_code = Some(c)
               /\ o.d[new].status = "waiting_photos"
               /\ Len(o.q) = j
               /\ o.q[j] = [DuelQueue(y, Some(c), now,
                                      now + RANDOM_MATCH_TIMEOUT)
                               EXCEPT !.status = "matched"]
               /\ SubSeq(o.q, 1, Len(queue)) =
                      [queue EXCEPT ![i].status = "matched"]

\* C12 witness: a duel made by a join by code is there, in waiting_photos,
\* of the host and the joiner, whose two rows of that code are 'matched'.
C12_RoomDuelMade ==
    \E d \in DOMAIN duels, c \in RoomCodes :
        /\ duels[d].room_code = Some(c)
        /\ duels[d].status = "waiting_photos"
        /\ consumed[d] # {}
        /\ \A i \in consumed[d] : /\ queue[i].status = "matched"
                                  /\ queue[i].room_code = Some(c)
        /\ {queue[i].user_id : i \in consumed[d]} = Participants(duels[d])

\* The status changes of a duel row the claim allows.
DuelTransitions ==
    {<<"waiting_photos", "scoring">>, <<"scoring", "completed">>,
     <<"waiting_photos", "cancelled">>, <<"scoring", "cancelled">>}

\* C13 (Spec): under any interleaving of the handlers, every change of a
\* duel's status is waiting_photos -> scoring, scoring -> completed,
\* waiting_photos -> cancelled or scoring -> cancelled: completed and
\* cancelled are never left, and completed is entered from scoring only.
C13_DuelStatusTransitions ==
    [][\A d \in DOMAIN duels :
          duels'[d].status # duels[d].status
              => <<duels[d].status, duels'[d].status>> \in DuelTransitions]_vars

\* The status values of a duel_queue row the claim calls terminal.
TerminalQueueStatus == {"matched", "cancelled", "expired"}

\* C14 (Spec): no step of any handler changes the status of a duel_queue row
\* that is matched, cancelled or expired.
C14_QueueTerminalStates ==
    [][\A i \in DOMAIN queue :
          queue[i].status \in TerminalQueueStatus
              => queue'[i].status = queue[i].status]_vars

\* C15 (SpecDb): in every state the Database methods reach, join_queue for a
\* user who has a 'waiting' row, with no code or with a room code, raises the
\* already-queued error (ValueError) and leaves both tables as they were.
C15_JoinWhenQueuedRejected ==
    \A u \in Users, code \in {None} \cup {Some(c) : c \in RoomCodes} :
        WaitingOf(queue, u) # {} =>
            LET r == join_queue(Db(queue, duels), u, code, now) IN
            /\ r.raised = "ValueError"
            /\ r.q = queue
            /\ r.d = duels

\* C16 (SpecRooms): in every state the handlers reach, no code is carried by
\* more than two 'waiting' rows, and join_queue with a code that two
\* 'waiting' rows carry is rejected (returns None or raises) and inserts no
\* row, for every code the handler can pass (JoinCodes).
C16_FullRoomRejected ==
    \A c \in JoinCodes :
        /\ Cardinality(WaitingWithCode(queue, c)) <= 2
        /\ Cardinality(WaitingWithCode(queue, c)) = 2 =>
              \A u \in Users :
                  LET r == join_queue(Db(queue, duels), u, Some(c), now) IN
                  /\ r.val = 0
                  /\ r.q = queue
                  /\ r.d = duels

\* Some user other than u has a waiting room row of code c, not expired at t.
RoomOpenFor(q, u, c, t) ==
    \E i \in DOMAIN q : /\ q[i].user_id # u
                        /\ q[i].status = "waiting"
                        /\ q[i].room_code = Some(c)
                        /\ q[i].expires_at > t

\* C17 (SpecRooms): in every state the handlers reach, when no other user
\* has a waiting, unexpired room row of code c and the joiner has no waiting
\* row, the joiner submitting c (any code the handler accepts) is told "room
\* not found", no duel is made, and after the handler's leave_queue the
\* joiner has no 'waiting' row.
C17_UnknownCodeNotFound ==
    \A u \in Users, c \in JoinCodes, task \in Tasks :
        (~RoomOpenFor(queue, u, c, now) /\ WaitingOf(queue, u) = {}) =>
            LET o == on_code_text(Db(queue, duels), u, c, now, task)
                l == leave_queue(Db(o.q, o.d), u)
            IN /\ o.out = "notfound"
               /\ o.duel = 0
               /\ o.d = duels
               /\ WaitingOf(l.q, u) = {}


\* The rows find_opponent may return to u, whose waiting row is code-less:
\* waiting, code-less, not expired at t, of another user.
RandomCandidates(q, u, t) ==
    {i \in DOMAIN q : /\ q[i].user_id # u
                      /\ q[i].status = "waiting"
                      /\ q[i].room_code = None
                      /\ q[i].expires_at > t}

\* C18 (SpecPair): in every state join_queue, leave_queue and
\* create_duel_from_queue reach, for a user whose one waiting row is
\* code-less and not expired, find_opponent returns the oldest candidate
\* (ORDER BY created_at ASC) whenever there is one, however many there are,
\* and None only when there is none.
C18_FindOpponentOldest ==
    \A u \in Users :
        (\E i \in DOMAIN queue : /\ WaitingOf(queue, u) = {i}
                                 /\ queue[i].room_code = None
                                 /\ queue[i].expires_at > now) =>
            LET r == find_opponent(Db(queue, duels), u, now)
                cand == RandomCandidates(queue, u, now)
            IN /\ r.raised = ""
               /\ IF cand = {} THEN r.val = 0
                  ELSE /\ r.val \in cand
                       /\ \A j \in cand \ {r.val} : Later(queue, j, r.val)

\* C19 (SpecRooms): in every state the handlers reach, a user submitting the
\* code c, for every code the handler accepts (JoinCodes), is paired only
\* with a user whose waiting row carries room_code c: both rows the new duel
\* is made of carry c, none is a code-less row of the random queue.
C19_CodeJoinPairsSameCode ==
    \A u \in Users, c \in JoinCodes, task \in Tasks :
        LET o == on_code_text(Db(queue, duels), u, c, now, task) IN
        o.duel # 0 =>
            /\ \A i \in o.rows : o.q[i].room_code = Some(c)
            /\ \E i \in o.rows : o.q[i].user_id = o.other

\* C20 (SpecDb): in every state the Database methods reach, leave_queue(u)
\* returns True and turns u's waiting row to 'cancelled' (nothing else
\* changes) when u has one, returns False and changes nothing when u has
\* none; and a second call right after returns False and leaves the tables
\* as the first call left them.
C20_LeaveQueueIdempotent ==
    \A u \in Users :
        LET first == leave_queue(Db(queue, duels), u)
            second == leave_queue(Db(first.q, first.d), u)
        IN /\ first.raised = ""
           /\ IF WaitingOf(queue, u) # {}
              THEN /\ first.val
                   /\ \E i \in WaitingOf(queue, u) :
                         first.q = [queue EXCEPT ![i].status = "cancelled"]
                   /\ WaitingOf(first.q, u) = {}
              ELSE ~first.val /\ first.q = queue
           /\ first.d = duels
           /\ second.raised = ""
           /\ ~second.val
           /\ second.q = first.q
           /\ second.d = first.d

\* C21 (Spec): in every state the handlers reach, /start from a user who has
\* a 'waiting' queue row, whichever active duel .first() yields (or none),
\* leaves that user with no 'waiting' row.
C21_RestartCancelsWaiting ==
    \A u \in Users :
        WaitingOf(queue, u) # {} =>
            \A pick \in CancelPicks(Db(queue, duels), u) :
                WaitingOf(cmd_start(Db(queue, duels), u, pick).q, u) = {}

\* C22 (SpecRooms): a step that ends an on_code_text handler suspended in
\* its "room not found" notice, the notice delivered or not, leaves both
\* tables as the delivered notice does: the user's leave_queue applied.
C22_DeliveryFailureSameState ==
    [][\A u \in Users :
          (BagIn(u, pendingLeave)
               /\ pendingLeave' = pendingLeave (-) SetToBag({u}))
              => LET sent == leave_queue(Db(queue, duels), u)
                 IN queue' = sent.q /\ duels' = sent.d]_vars

\* The completed duels of a user, and the ids a history holds.
CompletedOf(u) ==
    {i \in DOMAIN duels : IsParticipant(duels[i], u)
                          /\ duels[i].status = "completed"}
Returned(r) == {r[k] : k \in DOMAIN r}

\* C23 as stated (SpecHistory): whatever the number of completed duels,
\* my_stats' get_user_history(user) returns exactly the completed duels of
\* the user, none other and none missing, most recent first by created_at.
C23_HistoryExactlyCompleted ==
    \A u \in Users :
        LET r == get_user_history(Db(queue, duels), u, history_limit, 0) IN
        /\ Returned(r) = CompletedOf(u)
        /\ Len(r) = Cardinality(CompletedOf(u))
        /\ \A k, l \in DOMAIN r :
              k < l => duels[r[k]].created_at >= duels[r[l]].created_at

\* C23 amended (SpecHistory): get_user_history(user, limit=10) returns
\* completed duels of the user only, each once, most recent first by
\* created_at and then by id; all of them when they are at most `limit`,
\* and otherwise the `limit` most recent, every duel left out being older
\* than every duel returned.
C23_HistoryLatestPage ==
    \A u \in Users :
        LET r == get_user_history(Db(queue, duels), u, history_limit, 0)
            N == Cardinality(CompletedOf(u))
        IN /\ Returned(r) \subseteq CompletedOf(u)
           /\ Len(r) = IF N < history_limit THEN N ELSE history_limit
           /\ Cardinality(Returned(r)) = Len(r)
           /\ \A k, l \in DOMAIN r :
                 k < l => \/ duels[r[k]].created_at > duels[r[l]].created_at
                          \/ /\ duels[r[k]].created_at = duels[r[l]].created_at
                             /\ r[k] > r[l]
           /\ \A i \in CompletedOf(u) \ Returned(r), k \in DOMAIN r :
                 /\ duels[i].created_at <= duels[r[k]].created_at
                 /\ duels[i].created_at = duels[r[k]].created_at => i < r[k]

\* C23 witness: a user with more completed duels than the page holds, saved
\* at different times, and another user's duel that was committed through
\* update_duel_result among them.
C23_MoreThanAPage ==
    \E u \in Users :
        /\ Cardinality(CompletedOf(u)) > history_limit
        /\ \E i, j \in CompletedOf(u) : duels[i].created_at # duels[j].created_at
        /\ \E i \in CompletedOf(u) : duels[i].user_a_id = 3

\* C24 (Spec): in every state the handlers reach, mark_duel_photo_received
\* for a duel and a user who is neither its user_a nor its user_b leaves both
\* tables (photo flags and status with them) as they were, and its outcome
\* (exception, return value) differs from the outcome of every participant's
\* photo that is left waiting for the opponent.
C24_NotParticipantDistinct ==
    \A id \in DOMAIN duels : \A u \in Users \ Participants(duels[id]) :
        LET r == mark_duel_photo_received(Db(queue, duels), id, u) IN
        /\ r.q = queue /\ r.d = duels
        /\ \A p \in Participants(duels[id]) :
              LET w == mark_duel_photo_received(Db(queue, duels), id, p) IN
              (w.raised = "" /\ ~w.val)
                  => <<r.raised, r.val>> # <<w.raised, w.val>>

\* The waiting rows create_room inserted: a room code and the room's lifetime.
RoomsWaiting(q) ==
    {i \in DOMAIN q : /\ q[i].status = "waiting"
                      /\ q[i].room_code # None
                      /\ q[i].expires_at = q[i].created_at + ROOM_WAIT_MINUTES}

ReportedFailed(id) ==
    /\ last.op = "run_duel"
    /\ last.duel = id
    /\ ~last.ok
    /\ duels[id].status = "scoring"
    /\ last.note = Participants(duels[id])

\* C26 (SpecScorer): a duel whose Scorer call does not return is eventually
\* reported failed, at status scoring, to both participants; and while the
\* call is out, a photo handler of another duel that is suspended in its
\* download eventually goes on.
C26_HungScorerFails ==
    /\ \A id \in DuelIds : (in_scorer = id) ~> ReportedFailed(id)
    /\ \A u \in Users, id \in DuelIds :
          (in_scorer # 0 /\ BagIn(<<u, id>>, downloading))
              ~> ~BagIn(<<u, id>>, downloading)

\* C27 (Spec): in every state the handlers reach, cleanup_duplicate_duels
\* leaves every user in at most one duel that is waiting_photos or scoring,
\* and a user who was in several is left in the most recent of them, the
\* others cancelled.
C27_CleanupLeavesOneActiveDuel ==
    LET db == Db(queue, duels)
        r == cleanup_duplicate_duels(db)
        after == Db(r.q, r.d)
    IN \A u \in Users :
          /\ Cardinality(ActiveDuelsOf(after, u)) <= 1
          /\ Cardinality(ActiveDuelsOf(db, u)) > 1 =>
                /\ ActiveDuelsOf(after, u) = {Latest(duels, ActiveDuelsOf(db, u))}
                /\ \A i \in ActiveDuelsOf(db, u) \ ActiveDuelsOf(after, u) :
                      r.d[i].status = "cancelled"

\* C28 (SpecRepair): a run of cleanup_duplicate_queues leaves, for every user
\* with several 'waiting' rows, one of them waiting, with the latest
\* created_at, and the user's other waiting rows cancelled and otherwise as
\* they were; it leaves the row of a user with one waiting row, every
\* non-waiting row and the duels untouched; it returns the number of rows it
\* cancelled; and afterwards every user has at most one waiting row.
C28_DuplicateQueuesCollapsed ==
    [][last'.op = "cleanup_duplicate_queues" =>
          /\ duels' = duels
          /\ Len(queue') = Len(queue)
          /\ \A u \in Users :
                LET w == WaitingOf(queue, u) IN
                IF Cardinality(w) > 1
                THEN \E k \in w :
                        /\ \A j \in w : queue[j].created_at <= queue[k].created_at
                        /\ WaitingOf(queue', u) = {k}
                        /\ queue'[k] = queue[k]
                        /\ \A j \in w \ {k} :
                              queue'[j] = [queue[j] EXCEPT !.status = "cancelled"]
                ELSE \A i \in w : queue'[i] = queue[i]
          /\ \A i \in DOMAIN queue :
                queue[i].status # "waiting" => queue'[i] = queue[i]
          /\ last'.note = {Cardinality({i \in DOMAIN queue :
                                           queue'[i].status # queue[i].status})}
          /\ \A u \in Users : Cardinality(WaitingOf(queue', u)) <= 1]_vars

\* C28 witness: the repair has just cancelled two rows of a user, both older
\* than the row it left waiting.
C28_TwoOlderRowsCancelled ==
    /\ last.op = "cleanup_duplicate_queues"
    /\ last.note = {2}
    /\ \E u \in Users : \E k \in WaitingOf(queue, u) :
          Cardinality({j \in DOMAIN queue :
                          /\ queue[j].user_id = u
                          /\ queue[j].status = "cancelled"
                          /\ queue[j].created_at < queue[k].created_at}) = 2

\* C29 (SpecRepair): a run of cleanup_expired_queues sets to 'expired'
\* exactly the rows that were 'waiting' with expires_at earlier than now,
\* changes nothing else of them, leaves every other row and the duels as they
\* were and returns the number of rows it expired; a second run right after,
\* the clock not moved, returns 0 and changes nothing.
C29_SweepExpiresExactly ==
    [][last'.op = "cleanup_expired_queues" =>
          LET due == {i \in DOMAIN queue : /\ queue[i].status = "waiting"
                                           /\ queue[i].expires_at < now}
              again == cleanup_expired_queues(Db(queue', duels'), now')
          IN /\ duels' = duels
             /\ Len(queue') = Len(queue)
             /\ \A i \in due : queue'[i] = [queue[i] EXCEPT !.status = "expired"]
             /\ \A i \in DOMAIN queue \ due : queue'[i] = queue[i]
             /\ last'.note = {Cardinality(due)}
             /\ again.raised = "" /\ again.val = 0
             /\ again.q = queue' /\ again.d = duels']_vars

\* C29 witness: the sweep has just expired a row while a row of the same
\* user that expires later, and one that expires at this very minute, are
\* still waiting.
C29_SweptOneOfSeveral ==
    /\ last.op = "cleanup_expired_queues"
    /\ last.note = {1}
    /\ \E i, j \in DOMAIN queue :
          /\ queue[i].status = "expired" /\ queue[i].expires_at < now
          /\ queue[j].status = "waiting" /\ queue[j].expires_at > now
          /\ queue[i].user_id = queue[j].user_id
    /\ \E k \in DOMAIN queue :
          queue[k].status = "waiting" /\ queue[k].expires_at = now

\* C30 (Spec): in every state the handlers reach, a duel that is not
\* completed has winner_user_id, score_a and score_b null; a completed duel
\* has both scores and a winner that is null, user_a or user_b, and is a
\* participant only when that participant's committed score is strictly the
\* greater.
C30_ResultFieldsFollowStatus ==
    \A d \in DOMAIN duels :
        IF duels[d].status # "completed"
        THEN /\ duels[d].winner_user_id = None
             /\ duels[d].score_a = None
             /\ duels[d].score_b = None
        ELSE /\ duels[d].score_a # None
             /\ duels[d].score_b # None
             /\ duels[d].winner_user_id
                    \in {None, Some(duels[d].user_a_id), Some(duels[d].user_b_id)}
             /\ duels[d].winner_user_id = Some(duels[d].user_a_id)
                    => duels[d].score_a[1] > duels[d].score_b[1]
             /\ duels[d].winner_user_id = Some(duels[d].user_b_id)
                    => duels[d].score_b[1] > duels[d].score_a[1]

\* C30 witness: one duel was committed as a draw on equal scores, another was
\* cancelled after both photos were in.
C30_DrawAndCancelled ==
    \E d, e \in DOMAIN duels :
        /\ duels[d].status = "completed"
        /\ duels[d].winner_user_id = None
        /\ duels[d].score_a = duels[d].score_b
        /\ duels[e].status = "cancelled"
        /\ duels[e].photo_a_received /\ duels[e].photo_b_received

\* C31: create_room ends in one of two ways over every sequence of draws: it
\* returns a sampled code that no waiting row carried and adds one row, or it
\* fails as exhausted (RuntimeError after max_attempts draws that all met a
\* waiting code) and adds no row.
C31_RoomCodeOrExhausted ==
    \A u \in Users : \A r \in create_room(Db(queue, duels), u, now) :
        \/ /\ r.raised = ""
           /\ r.val \in RoomCodes
           /\ WaitingWithCode(queue, r.val) = {}
           /\ Len(r.q) = Len(queue) + 1
        \/ /\ r.raised = "RuntimeError"
           /\ \E c \in RoomCodes : WaitingWithCode(queue, c) # {}
           /\ r.q = queue


\* C32 (SpecRace): a duel cancelled while a photo handler of the opponent was
\* in flight stays as it is: no step calls the Scorer for it, its status,
\* scores and winner do not change, and a run_duel on it changes no queue row
\* other than the two rows the duel was made from.
C32_CancelledDuelUntouched ==
    [][\A id \in DOMAIN duels :
          duels[id].status = "cancelled" =>
              /\ scorerCalls'[id] = scorerCalls[id]
              /\ duels'[id].status = "cancelled"
              /\ duels'[id].score_a = duels[id].score_a
              /\ duels'[id].score_b = duels[id].score_b
              /\ duels'[id].winner_user_id = duels[id].winner_user_id
              /\ (last'.op = "run_duel" /\ last'.duel = id
                    => \A i \in DOMAIN queue \ consumed[id] :
                           queue'[i] = queue[i])]_vars

\* C33 (Spec): whenever run_duel gets scores from the Scorer for a duel in
\* scoring (both photos recorded), update_duel_result returns and the duel is
\* completed afterwards.
C33_ScoredDuelCompletes ==
    [][\A id \in DOMAIN duels :
          (/\ duels[id].status = "scoring"
           /\ duels[id].photo_a_received /\ duels[id].photo_b_received
           /\ last'.op = "run_duel" /\ last'.duel = id /\ last'.ok)
              => /\ last'.raised = ""
                 /\ duels'[id].status = "completed"]_vars

\* C34 (Spec): whenever run_duel commits a result for a duel in scoring, the
\* winner_user_id stored in the row is the winner the Scorer adapter reported
\* and run_duel announces: user_a for "a", user_b for "b", null for a draw.
C34_StoredWinnerIsReported ==
    \A id \in DOMAIN duels :
        duels[id].status = "scoring" =>
            \A raw \in ScorePairs :
                LET r == run_duel(Db(queue, duels), id, raw[1], raw[2])
                    winner_user_id ==
                        IF r.winner = "a" THEN Some(duels[id].user_a_id)
                        ELSE IF r.winner = "b" THEN Some(duels[id].user_b_id)
                        ELSE None
                IN r.raised = "" => r.d[id].winner_user_id = winner_user_id

\* C35 (Spec): in every state a duel in scoring or completed has both photo
\* flags true, and no step turns a photo flag that is true back to false.
C35_PhotoFlagsHoldAndStay ==
    /\ [](\A id \in DOMAIN duels :
             duels[id].status \in {"scoring", "completed"}
                 => duels[id].photo_a_received /\ duels[id].photo_b_received)
    /\ [][\A id \in DOMAIN duels :
             /\ duels[id].photo_a_received => duels'[id].photo_a_received
             /\ duels[id].photo_b_received => duels'[id].photo_b_received]_vars

\* C35 witness: one duel is completed and another in scoring, a photo handler
\* still in flight.
C35_CompletedAndScoring ==
    /\ \E d, e \in DOMAIN duels :
          duels[d].status = "completed" /\ duels[e].status = "scoring"
    /\ downloading # EmptyBag

\* C36 (SpecClock): no duel made by find_random or by a submitted room code
\* has the same user as user_a and user_b.
C36_NoSelfDuel ==
    \A d \in DOMAIN duels : duels[d].user_a_id # duels[d].user_b_id

\* C36 witness: a duel was made from a room code, and one of its participants
\* has a row of their own waiting again.
C36_RoomDuelThenWaiting ==
    \E d \in DOMAIN duels :
        /\ Truthy(duels[d].room_code)
        /\ \E u \in Participants(duels[d]) : WaitingOf(queue, u) # {}


\* C37 (SpecClock): every duel the handlers make is made from two queue rows
\* that had not expired when it was made: the row of the user who started the
\* pairing and the row of the opponent both have expires_at after the duel's
\* created_at.
C37_NoDuelFromExpiredRow ==
    \A d \in DOMAIN duels : \A i \in consumed[d] :
        queue[i].expires_at > duels[d].created_at

\* C37 witness: a duel was made while an older row that could have been its
\* opponent (same room code or none, another user) was still marked waiting
\* with its expires_at passed.
C37_ExpiredRowPassedOver ==
    \E d \in DOMAIN duels : \E i \in DOMAIN queue \ consumed[d] :
        /\ consumed[d] # {}
        /\ queue[i].status = "waiting"
        /\ queue[i].room_code = duels[d].room_code
        /\ queue[i].expires_at <= duels[d].created_at
        /\ queue[i].user_id \notin Participants(duels[d])

\* The runs of run_duel_and_notify on room object id among the suspended
\* handlers cs.
RunsOf(cs, id) ==
    {c \in cs : c.room = id /\ c.pc \in {"analysis", "result", "error"}}

\* C38 (SpecMem): scoring starts at most once per room.  A step that enters
\* run_duel_and_notify for a room finds evaluation_started false and leaves it
\* true, at most one run per room is in flight, and evaluation_started, once
\* true, stays true for as long as the room object lives.
C38_ScoringStartsOnce ==
    [][\A id \in DOMAIN room_objects :
          /\ (\E c \in RunsOf(coroutines', id) \ coroutines : c.pc = "analysis")
                => /\ ~room_objects[id].evaluation_started
                   /\ room_objects'[id].evaluation_started
          /\ Cardinality(RunsOf(coroutines', id)) <= 1
          /\ (room_objects[id].evaluation_started
                /\ room_objects'[id] # Freed)
                => room_objects'[id].evaluation_started]_vars

\* C38 witness: scoring runs for a room whose two photos are in, while a
\* further photo handler of one of its players, holding the same room, is
\* about to reach the barrier.
C38_PhotoDuringScoring ==
    \E id \in DOMAIN room_objects : \E c \in coroutines :
        /\ RunsOf(coroutines, id) # {}
        /\ both_photos_received(room_objects[id])
        /\ c.room = id /\ c.pc = "state"

\* C39 (SpecMem): whenever on_create_room calls GameManager.create_room, for
\* every outcome of the draws each room of the dict is still there afterwards
\* under its code, with its host and guest, and the code returned was not in
\* use before the call.
C39_CreateRoomKeepsRooms ==
    \A u \in Players :
        fsm_state[u] \in {"None", "Idle"} =>
            \A o \in GameManager_create_room(TheGm, u, create_room_draws) :
                /\ RoomAt(rooms, o[2]) = 0
                /\ \A i \in DOMAIN rooms :
                      LET code == rooms[i][1]
                          room == room_objects[rooms[i][2]]
                          after == o[1].objs[RoomAt(o[1].rooms, code)]
                      IN /\ RoomAt(o[1].rooms, code) # 0
                         /\ after.host_id = room.host_id
                         /\ after.guest_id = room.guest_id
=============================================================================
